---- MODULE Spec2Model ----
(***************************************************************************)
(* Device trust and session-issuance gateway (uneseule_server).            *)
(*                                                                         *)
(* PairSpec  : DeviceService (pair, unpair, register_and_pair,             *)
(*             unpair_by_id) over the devices table and the pairing-code   *)
(*             store, one request per process, one step per await.         *)
(* RaceSpec  : pair and register_and_pair requests in flight together.     *)
(* TokenSpec : VoiceTokenService.generate_token and its rate limiter.      *)
(* LimitSpec : generate_token as the router calls it, requests in flight   *)
(*             together against one daily counter.                         *)
(* CancelSpec: LimitSpec with requests stopped inside the increment.       *)
(* SerialSpec: LimitSpec with each device's requests one after another.    *)
(* SeenSpec  : token requests and health checks of authenticated devices.  *)
(* VerifySpec: calls of verify_device_signature.                           *)
(* AuthSpec  : requests through the verify_device dependency.              *)
(* ReplaySpec: a signature presented with another timestamp and body.      *)
(* RoomSpec  : calls of LiveKitClient.generate_room_name.                  *)
(***************************************************************************)
EXTENDS Integers, Sequences, FiniteSets, TLC

VARIABLES
    devices,    \* committed rows of table "devices": device id -> row
    children,   \* table "children": child id -> [is_active, user_id]
    codes,      \* Redis keys pairing_code:<code> -> child id
    now,        \* wall clock (datetime.now)
    pc,         \* per request: the await the handler is suspended at
    op,         \* per request: the operation and its arguments
    dev,        \* per request: the ORM Device object the handler holds
    got,        \* per request: child_id_str read from Redis
    existing,   \* per request: device found by get_by_child_id
    result,     \* per request: error_code / "OK" / raised exception
    writes,     \* per request: rows flushed in its open transaction
    deleted,    \* per request: Redis keys it has deleted
    consumed,   \* codes on which a redis.delete has completed
    subscriptions,  \* table "subscriptions": user id -> row
    rate_limit,     \* Redis keys rate_limit:device:<id>:daily -> decimal string
    expiring,       \* the rate_limit keys that carry a TTL -> time they lapse at
    last_seen,      \* devices.last_seen: device id -> timestamp
    connection_status,  \* devices.connection_status: device id -> status
    livekit_keys,   \* settings.LIVEKIT_API_KEY and LIVEKIT_API_SECRET are set
    started,        \* generate_token calls made so far
    tpc,            \* per call: the step generate_token is at
    call,           \* per call: the device and whether self.redis is set
    subscription,   \* per call: the Subscription row it has loaded
    token_result,   \* per call: error_code / "OK" / raised exception
    issued,         \* per call: a LiveKit token has been minted
    charged,        \* per call: redis.incr calls it has made
    minted,         \* per device: LiveKit tokens minted since the last midnight
    granted,        \* per device: LiveKit tokens minted since its counter key
                    \* last lapsed
    seen_before,    \* per call: devices.last_seen and connection_status as
                    \* they were before the call's uncommitted UPDATE, <<>>
                    \* when it has made none
    verified,       \* the last verify_device_signature call: arguments, what
                    \* the signature was made from, time.time() and the outcome
    again,          \* the same arguments passed once more: time.time(), outcome
    request,        \* per request: the X-Device-* headers verify_device was given
    response,       \* per request: the status and detail it was answered with
    lookups,        \* per request: get_device_secret calls made for it
    replayed,       \* the signature of the last call presented once more with
                    \* another timestamp and body: those, time.time(), outcome
    rooms           \* the room names generate_room_name has returned, in order

pairVars == <<devices, children, codes, now, pc, op, dev, got, existing,
              result, writes, deleted, consumed>>

\* The request-local and code-store part of the pairing state.
pairLocals == <<codes, pc, op, dev, got, existing, result, writes, deleted, consumed>>

tokenVars == <<subscriptions, rate_limit, expiring, last_seen, connection_status,
               livekit_keys, started,
               tpc, call, subscription, token_result, issued, charged, minted, granted,
               seen_before>>

authVars == <<verified, again, request, response, lookups, replayed>>

roomVars == <<rooms>>

vars == <<pairVars, tokenVars, authVars, roomVars>>

----------------------------------------------------------------------------
(* Bounds of the model *)

MaxTime == 2
MaxCalls == 2
\* Seconds in a day, scaled: UTC midnights are the multiples of DayLen.
DayLen == 2

Procs == {1, 2}
DeviceIds == {"d1", "d2", "d3"}
ChildIds == {"c1", "c2"}
UserIds == {"u1", "u2"}
Codes == {"k1", "k2"}
\* (serial, secret) pairs a parent app submits: a registered device with its
\* secret, the same serial with another secret, and a new device.
RegisterInputs == {<<"s1", "x">>, <<"s1", "y">>, <<"s3", "x">>}
RaceInputs == {<<"s1", "x">>, <<"s3", "x">>}

NULL == "NULL"
NoRow == [exists |-> FALSE]
NoWrites == [d \in {} |-> NoRow]
NoOp == [name |-> "none"]
NoDev == [id |-> NULL, child_id |-> NULL]
NoTime == <<>>
NoKeys == [k \in {} |-> <<>>]
NoCall == [device |-> NULL, redis |-> FALSE]
NoVerify == [called |-> FALSE]
NoAgain == [called |-> FALSE]
NoRequest == [sent |-> FALSE]
NoResponse == [status |-> 0, detail |-> ""]

----------------------------------------------------------------------------
(* Table "devices" *)

Device(serial, secret, child, at, active) ==
    [exists |-> TRUE, serial_number |-> serial, device_secret |-> secret,
     child_id |-> child, paired_at |-> at, is_active |-> active]

\* What the request's transaction sees: committed rows under its own flushes.
View(p) ==
    [d \in DeviceIds |-> IF d \in DOMAIN writes[p] THEN writes[p][d] ELSE devices[d]]

\* Fault: the is_active test inverted.
ActiveDevicesOf_inverted(table, child) ==
    {d \in DeviceIds : table[d].exists /\ ~table[d].is_active /\ table[d].child_id = child}

\* Rows matching child_id = :child AND is_active.
ActiveDevicesOf(table, child) ==
    {d \in DeviceIds : table[d].exists /\ table[d].is_active /\ table[d].child_id = child}

\* Fault: the index declared without unique=True.
idx_devices_child_not_unique(table) == TRUE

\* Partial unique index on child_id WHERE child_id IS NOT NULL AND is_active.
idx_devices_unique_child(table) ==
    \A c \in ChildIds : Cardinality(ActiveDevicesOf(table, c)) <= 1

\* serial_number = Column(String(50), unique=True).
serial_number_unique(table) ==
    \A a, b \in DeviceIds :
        (a # b /\ table[a].exists /\ table[b].exists)
        => table[a].serial_number # table[b].serial_number

TableOk(table) == idx_devices_unique_child(table) /\ serial_number_unique(table)

----------------------------------------------------------------------------
(* DeviceRepository: rows written by a flush, and queries *)

\* Fault: paired_at left behind.
unpair_keeps_paired_at(row) == [row EXCEPT !.child_id = NULL]

\* UPDATE devices SET child_id = NULL, paired_at = NULL WHERE id = :id
unpair(row) == [row EXCEPT !.child_id = NULL, !.paired_at = NoTime]

\* The ORM flushes changed attributes only: child_id is in the UPDATE when it
\* differs from the value the Device object was loaded with.
pair_with_child(row, loaded_child, child, t) ==
    [row EXCEPT !.child_id = IF loaded_child # child THEN child ELSE @,
                !.paired_at = <<t>>]

\* scalar_one_or_none(): None, the row, or MultipleResultsFound.
get_by_child_id(table, child) ==
    LET found == ActiveDevicesOf(table, child) IN
    IF found = {} THEN NULL
    ELSE IF Cardinality(found) = 1 THEN CHOOSE d \in found : TRUE
    ELSE "MultipleResultsFound"

get_by_serial_number(table, serial) ==
    LET found == {d \in DeviceIds : table[d].exists /\ table[d].serial_number = serial} IN
    IF found = {} THEN NULL
    ELSE IF Cardinality(found) = 1 THEN CHOOSE d \in found : TRUE
    ELSE "MultipleResultsFound"

\* select(Child).where(id, is_active)
_get_child(child) == IF children[child].is_active THEN child ELSE NULL

\* select(Child).where(id, user_id, is_active)
_get_child_with_user(child, user) ==
    IF children[child].is_active /\ children[child].user_id = user THEN child ELSE NULL

----------------------------------------------------------------------------
(* The pairing-code store (Redis) *)

redis_get(store, key) == IF key \in DOMAIN store THEN store[key] ELSE NULL

\* Fault: the delete addresses a key that is not there.
redis_delete_noop(store, key) == store

redis_delete(store, key) == [k \in DOMAIN store \ {key} |-> store[k]]

----------------------------------------------------------------------------
(* The relational store: READ COMMITTED transactions, row locks, and unique *)
(* indexes checked when a statement is flushed.                             *)

InFlight(p) == {q \in Procs \ {p} : DOMAIN writes[q] # {}}

RowLocked(p, w) == \E q \in Procs \ {p} : DOMAIN w \cap DOMAIN writes[q] # {}

\* The table if p's statement w is applied and exactly the transactions in S commit.
TableIf(p, w, S) ==
    [d \in DeviceIds |->
        IF d \in DOMAIN w THEN w[d]
        ELSE IF d \in DOMAIN writes[p] THEN writes[p][d]
        ELSE IF \E q \in S : d \in DOMAIN writes[q]
             THEN writes[CHOOSE q \in S : d \in DOMAIN writes[q]][d]
        ELSE devices[d]]

\* "ok", "IntegrityError", or "wait" while the answer depends on whether an
\* open transaction commits (the statement blocks on its lock).
FlushOutcome(p, w) ==
    IF RowLocked(p, w) THEN "wait"
    ELSE LET oks == {TableOk(TableIf(p, w, S)) : S \in SUBSET InFlight(p)} IN
         IF oks = {TRUE} THEN "ok"
         ELSE IF oks = {FALSE} THEN "IntegrityError"
         ELSE "wait"

----------------------------------------------------------------------------
(* Request bookkeeping *)

\* Requests are interchangeable: a new one takes the lowest free slot.
SlotFree(p) ==
    /\ pc[p] = "idle"
    /\ IF p = 1 THEN TRUE ELSE pc[p - 1] # "idle"

Return(p, code) ==
    /\ pc' = [pc EXCEPT ![p] = "returned"]
    /\ result' = [result EXCEPT ![p] = code]

Goto(p, label) ==
    /\ pc' = [pc EXCEPT ![p] = label]
    /\ UNCHANGED result

\* An exception leaves the handler: the session is rolled back.
Raised(p, exc) ==
    /\ pc' = [pc EXCEPT ![p] = "raised"]
    /\ result' = [result EXCEPT ![p] = exc]
    /\ writes' = [writes EXCEPT ![p] = NoWrites]

\* db.flush() of statement w, then the handler continues at label (or returns).
Flush(p, w, label, code) ==
    LET out == FlushOutcome(p, w) IN
    /\ out # "wait"
    /\ IF out = "ok"
       THEN /\ writes' = [writes EXCEPT ![p] = w @@ @]
            /\ IF label = "returned" THEN Return(p, code) ELSE Goto(p, label)
       ELSE Raised(p, out)

----------------------------------------------------------------------------
(* DeviceService.pair *)

StartPair(p, d, k, r) ==
    /\ SlotFree(p)
    /\ devices[d].exists
    /\ op' = [op EXCEPT ![p] = [name |-> "pair", code |-> k, redis |-> r]]
    /\ dev' = [dev EXCEPT ![p] = [id |-> d, child_id |-> devices[d].child_id]]
    /\ Goto(p, "pair_verify")
    /\ UNCHANGED <<devices, children, codes, now, got, existing, writes, deleted, consumed>>

\* Steps 1-2 up to redis.get(key).
PairVerify(p) ==
    /\ pc[p] = "pair_verify"
    /\ IF dev[p].child_id # NULL
       THEN Return(p, "ALREADY_PAIRED") /\ UNCHANGED got
       ELSE IF ~op[p].redis
       THEN Return(p, "SERVICE_UNAVAILABLE") /\ UNCHANGED got
       ELSE /\ got' = [got EXCEPT ![p] = redis_get(codes, op[p].code)]
            /\ IF redis_get(codes, op[p].code) # NULL
               THEN Goto(p, "pair_delete")
               ELSE Return(p, "INVALID_PAIRING_CODE")
    /\ UNCHANGED <<devices, children, codes, now, op, dev, existing, writes, deleted, consumed>>

\* redis.delete(key), then _verify_pairing_code returns child_id.
PairDelete(p) ==
    /\ pc[p] = "pair_delete"
    /\ codes' = redis_delete(codes, op[p].code)
    /\ deleted' = [deleted EXCEPT ![p] = @ \cup {op[p].code}]
    /\ consumed' = consumed \cup {op[p].code}
    /\ Goto(p, "pair_get_child")
    /\ UNCHANGED <<devices, children, now, op, dev, got, existing, writes>>

\* Step 3.
PairGetChild(p) ==
    /\ pc[p] = "pair_get_child"
    /\ IF _get_child(got[p]) = NULL
       THEN Return(p, "CHILD_NOT_FOUND")
       ELSE Goto(p, "pair_get_existing")
    /\ UNCHANGED <<devices, children, codes, now, op, dev, got, existing, writes, deleted, consumed>>

\* Step 4, the query.
PairGetExisting(p) ==
    /\ pc[p] = "pair_get_existing"
    /\ LET found == get_by_child_id(View(p), got[p]) IN
       IF found = "MultipleResultsFound"
       THEN Raised(p, found) /\ UNCHANGED existing
       ELSE /\ existing' = [existing EXCEPT ![p] = found]
            /\ Goto(p, IF found # NULL /\ found # dev[p].id THEN "pair_evict" ELSE "pair_set")
            /\ UNCHANGED writes
    /\ UNCHANGED <<devices, children, codes, now, op, dev, got, deleted, consumed>>

\* Step 4, device_repo.unpair(existing_device).
PairEvict(p) ==
    /\ pc[p] = "pair_evict"
    /\ Flush(p, existing[p] :> unpair(View(p)[existing[p]]), "pair_set", "")
    /\ UNCHANGED <<devices, children, codes, now, op, dev, got, existing, deleted, consumed>>

\* Step 5, device_repo.pair_with_child(device, child_id), and the success return.
PairSet(p) ==
    /\ pc[p] = "pair_set"
    /\ Flush(p, dev[p].id :> pair_with_child(View(p)[dev[p].id], dev[p].child_id, got[p], now),
             "returned", "OK")
    /\ dev' = [dev EXCEPT ![p].child_id = got[p]]
    /\ UNCHANGED <<devices, children, codes, now, op, got, existing, deleted, consumed>>

----------------------------------------------------------------------------
(* DeviceService.unpair *)

StartUnpair(p, d) ==
    /\ SlotFree(p)
    /\ devices[d].exists
    /\ op' = [op EXCEPT ![p] = [name |-> "unpair"]]
    /\ dev' = [dev EXCEPT ![p] = [id |-> d, child_id |-> devices[d].child_id]]
    /\ Goto(p, "unpair")
    /\ UNCHANGED <<devices, children, codes, now, got, existing, writes, deleted, consumed>>

\* Fault: no NOT_PAIRED guard, a silent no-op on an unpaired device.
Unpair_silent(p) ==
    /\ pc[p] = "unpair"
    /\ Flush(p, dev[p].id :> unpair(View(p)[dev[p].id]), "returned", "OK")
    /\ dev' = [dev EXCEPT ![p].child_id = NULL]
    /\ UNCHANGED <<devices, children, codes, now, op, got, existing, deleted, consumed>>

Unpair(p) ==
    /\ pc[p] = "unpair"
    /\ IF dev[p].child_id = NULL
       THEN Return(p, "NOT_PAIRED") /\ UNCHANGED <<writes, dev>>
       ELSE /\ Flush(p, dev[p].id :> unpair(View(p)[dev[p].id]), "returned", "OK")
            /\ dev' = [dev EXCEPT ![p].child_id = NULL]
    /\ UNCHANGED <<devices, children, codes, now, op, got, existing, deleted, consumed>>

----------------------------------------------------------------------------
(* DeviceService.register_and_pair *)

StartRegisterAndPair(p, u, s, x, c) ==
    /\ SlotFree(p)
    /\ op' = [op EXCEPT ![p] = [name |-> "register_and_pair", user |-> u,
                                serial |-> s, secret |-> x, child |-> c]]
    /\ Goto(p, "rp_get_child")
    /\ UNCHANGED <<devices, children, codes, now, dev, got, existing, writes, deleted, consumed>>

\* Step 1.
RpGetChild(p) ==
    /\ pc[p] = "rp_get_child"
    /\ IF _get_child_with_user(op[p].child, op[p].user) = NULL
       THEN Return(p, "CHILD_NOT_FOUND")
       ELSE Goto(p, "rp_get_serial")
    /\ UNCHANGED <<devices, children, codes, now, op, dev, got, existing, writes, deleted, consumed>>

\* Step 2, the lookup and the secret comparison.
RpGetSerial(p) ==
    /\ pc[p] = "rp_get_serial"
    /\ LET found == get_by_serial_number(View(p), op[p].serial) IN
       IF found = "MultipleResultsFound"
       THEN Raised(p, found) /\ UNCHANGED dev
       ELSE IF found = NULL
       THEN Goto(p, "rp_get_existing_child_device") /\ UNCHANGED <<dev, writes>>
       ELSE LET row == View(p)[found] IN
            /\ dev' = [dev EXCEPT ![p] = [id |-> found, child_id |-> row.child_id]]
            /\ UNCHANGED writes
            /\ IF row.device_secret # op[p].secret
               THEN Return(p, "SERIAL_NUMBER_EXISTS")
               ELSE Goto(p, IF row.child_id # NULL /\ row.child_id # op[p].child
                            THEN "rp_unpair_previous" ELSE "rp_get_child_device")
    /\ UNCHANGED <<devices, children, codes, now, op, got, existing, deleted, consumed>>

\* Re-pair: unpair from the previous child (flush, refresh).
RpUnpairPrevious(p) ==
    /\ pc[p] = "rp_unpair_previous"
    /\ Flush(p, dev[p].id :> unpair(View(p)[dev[p].id]), "rp_get_child_device", "")
    /\ dev' = [dev EXCEPT ![p].child_id = NULL]
    /\ UNCHANGED <<devices, children, codes, now, op, got, existing, deleted, consumed>>

RpGetChildDevice(p) ==
    /\ pc[p] = "rp_get_child_device"
    /\ LET found == get_by_child_id(View(p), op[p].child) IN
       IF found = "MultipleResultsFound"
       THEN Raised(p, found) /\ UNCHANGED existing
       ELSE /\ existing' = [existing EXCEPT ![p] = found]
            /\ Goto(p, IF found # NULL /\ found # dev[p].id
                       THEN "rp_unpair_child_device" ELSE "rp_pair_existing")
            /\ UNCHANGED writes
    /\ UNCHANGED <<devices, children, codes, now, op, dev, got, deleted, consumed>>

RpUnpairChildDevice(p) ==
    /\ pc[p] = "rp_unpair_child_device"
    /\ Flush(p, existing[p] :> unpair(View(p)[existing[p]]), "rp_pair_existing", "")
    /\ UNCHANGED <<devices, children, codes, now, op, dev, got, existing, deleted, consumed>>

RpPairExisting(p) ==
    /\ pc[p] = "rp_pair_existing"
    /\ Flush(p, dev[p].id :> pair_with_child(View(p)[dev[p].id], dev[p].child_id,
                                             op[p].child, now),
             "returned", "OK")
    /\ dev' = [dev EXCEPT ![p].child_id = op[p].child]
    /\ UNCHANGED <<devices, children, codes, now, op, got, existing, deleted, consumed>>

\* Step 3, the query.
RpGetExistingChildDevice(p) ==
    /\ pc[p] = "rp_get_existing_child_device"
    /\ LET found == get_by_child_id(View(p), op[p].child) IN
       IF found = "MultipleResultsFound"
       THEN Raised(p, found) /\ UNCHANGED existing
       ELSE /\ existing' = [existing EXCEPT ![p] = found]
            /\ Goto(p, IF found # NULL THEN "rp_unpair_existing" ELSE "rp_create")
            /\ UNCHANGED writes
    /\ UNCHANGED <<devices, children, codes, now, op, dev, got, deleted, consumed>>

RpUnpairExisting(p) ==
    /\ pc[p] = "rp_unpair_existing"
    /\ Flush(p, existing[p] :> unpair(View(p)[existing[p]]), "rp_create", "")
    /\ UNCHANGED <<devices, children, codes, now, op, dev, got, existing, deleted, consumed>>

\* A primary key no row uses (uuid4).
FreeIds == {d \in DeviceIds : ~devices[d].exists /\ \A q \in Procs : d \notin DOMAIN writes[q]}

\* Step 4: INSERT of the new device, child_id already set.
RpCreate(p) ==
    /\ pc[p] = "rp_create"
    /\ FreeIds # {}
    /\ LET d == CHOOSE f \in FreeIds : TRUE IN
       /\ Flush(p, d :> Device(op[p].serial, op[p].secret, op[p].child, NoTime, TRUE),
                "rp_set_pairing", "")
       /\ dev' = [dev EXCEPT ![p] = [id |-> d, child_id |-> op[p].child]]
    /\ UNCHANGED <<devices, children, codes, now, op, got, existing, deleted, consumed>>

\* Step 5.
RpSetPairing(p) ==
    /\ pc[p] = "rp_set_pairing"
    /\ Flush(p, dev[p].id :> pair_with_child(View(p)[dev[p].id], dev[p].child_id,
                                             op[p].child, now),
             "returned", "OK")
    /\ UNCHANGED <<devices, children, codes, now, op, dev, got, existing, deleted, consumed>>

----------------------------------------------------------------------------
(* DeviceService.unpair_by_id *)

StartUnpairById(p, u, d) ==
    /\ SlotFree(p)
    /\ op' = [op EXCEPT ![p] = [name |-> "unpair_by_id", user |-> u, device |-> d]]
    /\ Goto(p, "ub_get")
    /\ UNCHANGED <<devices, children, codes, now, dev, got, existing, writes, deleted, consumed>>

\* Steps 1-2.
UbGet(p) ==
    /\ pc[p] = "ub_get"
    /\ LET row == View(p)[op[p].device] IN
       IF ~row.exists
       THEN Return(p, "DEVICE_NOT_FOUND") /\ UNCHANGED dev
       ELSE /\ dev' = [dev EXCEPT ![p] = [id |-> op[p].device, child_id |-> row.child_id]]
            /\ IF row.child_id = NULL
               THEN Return(p, "NOT_PAIRED")
               ELSE Goto(p, "ub_get_child")
    /\ UNCHANGED <<devices, children, codes, now, op, got, existing, writes, deleted, consumed>>

\* Step 3.
UbGetChild(p) ==
    /\ pc[p] = "ub_get_child"
    /\ IF _get_child_with_user(dev[p].child_id, op[p].user) = NULL
       THEN Return(p, "UNAUTHORIZED")
       ELSE Goto(p, "ub_unpair")
    /\ UNCHANGED <<devices, children, codes, now, op, dev, got, existing, writes, deleted, consumed>>

\* Step 4.
UbUnpair(p) ==
    /\ pc[p] = "ub_unpair"
    /\ Flush(p, dev[p].id :> unpair(View(p)[dev[p].id]), "returned", "OK")
    /\ dev' = [dev EXCEPT ![p].child_id = NULL]
    /\ UNCHANGED <<devices, children, codes, now, op, got, existing, deleted, consumed>>

----------------------------------------------------------------------------
(* End of a request *)

exists_by_serial_never(table, serial) == FALSE

\* DeviceRepository.exists_by_serial: SELECT id WHERE serial_number = :serial.
exists_by_serial(table, serial) ==
    \E d \in DeviceIds : table[d].exists /\ table[d].serial_number = serial

\* The secrets secrets.token_urlsafe(32) may hand out.
GeneratedSecrets == {"g1", "g2"}

RegisterSerials == {"s1", "s3"}

\* DeviceService.register(serial_number, device_type, firmware_version).
StartRegister(p, s) ==
    /\ SlotFree(p)
    /\ op' = [op EXCEPT ![p] = [name |-> "register", serial |-> s]]
    /\ Goto(p, "rg_exists")
    /\ UNCHANGED <<devices, children, codes, now, dev, got, existing, writes, deleted, consumed>>

RgExists(p) ==
    /\ pc[p] = "rg_exists"
    /\ IF exists_by_serial(View(p), op[p].serial)
       THEN Return(p, "SERIAL_NUMBER_EXISTS")
       ELSE Goto(p, "rg_create")
    /\ UNCHANGED <<devices, children, codes, now, op, dev, got, existing, writes, deleted, consumed>>

\* DeviceRepository.create: INSERT with a generated secret, flush, refresh.
RgCreate(p) ==
    /\ pc[p] = "rg_create"
    /\ FreeIds # {}
    /\ \E secret \in GeneratedSecrets :
          LET d == CHOOSE f \in FreeIds : TRUE IN
          /\ Flush(p, d :> Device(op[p].serial, secret, NULL, NoTime, TRUE), "returned", "OK")
          /\ dev' = [dev EXCEPT ![p] = [id |-> d, child_id |-> NULL]]
    /\ UNCHANGED <<devices, children, codes, now, op, got, existing, deleted, consumed>>

\* get_db commits when the REST handler has returned; the GraphQL mutations
\* commit on success only and otherwise close the session.
Commits(p) ==
    /\ pc[p] = "returned"
    /\ (op[p].name \in {"register_and_pair", "unpair_by_id"} => result[p] = "OK")

Finish(p) ==
    /\ pc[p] \in {"returned", "raised"}
    /\ devices' = IF Commits(p) THEN View(p) ELSE devices
    /\ writes' = [writes EXCEPT ![p] = NoWrites]
    /\ pc' = [pc EXCEPT ![p] = "idle"]
    /\ op' = [op EXCEPT ![p] = NoOp]
    /\ dev' = [dev EXCEPT ![p] = NoDev]
    /\ got' = [got EXCEPT ![p] = NULL]
    /\ existing' = [existing EXCEPT ![p] = NULL]
    /\ result' = [result EXCEPT ![p] = NULL]
    /\ deleted' = [deleted EXCEPT ![p] = {}]
    /\ UNCHANGED <<children, codes, now, consumed>>

\* The caller goes away at an await: CancelledError unwinds the handler and
\* the session is rolled back and closed.
Cancel(p) ==
    /\ pc[p] \notin {"idle", "returned", "raised"}
    /\ writes' = [writes EXCEPT ![p] = NoWrites]
    /\ pc' = [pc EXCEPT ![p] = "idle"]
    /\ op' = [op EXCEPT ![p] = NoOp]
    /\ dev' = [dev EXCEPT ![p] = NoDev]
    /\ got' = [got EXCEPT ![p] = NULL]
    /\ existing' = [existing EXCEPT ![p] = NULL]
    /\ result' = [result EXCEPT ![p] = NULL]
    /\ deleted' = [deleted EXCEPT ![p] = {}]
    /\ UNCHANGED <<devices, children, codes, now, consumed>>

Tick ==
    /\ now < MaxTime
    /\ now' = now + 1
    /\ UNCHANGED <<devices, children, codes, pc, op, dev, got, existing, result,
                   writes, deleted, consumed>>

----------------------------------------------------------------------------

\* No generate_token call in progress, no device request made.
TokenIdle ==
    /\ tpc = [p \in Procs |-> "idle"]
    /\ call = [p \in Procs |-> NoCall]
    /\ subscription = [p \in Procs |-> NoRow]
    /\ token_result = [p \in Procs |-> NULL]
    /\ issued = [p \in Procs |-> FALSE]
    /\ charged = [p \in Procs |-> 0]
    /\ seen_before = [p \in Procs |-> <<>>]
    /\ verified = NoVerify
    /\ again = NoAgain
    /\ request = [p \in Procs |-> NoRequest]
    /\ response = [p \in Procs |-> NoResponse]
    /\ lookups = [p \in Procs |-> 0]
    /\ replayed = NoAgain
    /\ rooms = <<>>

InitPair ==
    /\ devices \in {[d \in DeviceIds |->
                        IF d = "d1" THEN Device("s1", "x", NULL, NoTime, TRUE)
                        ELSE IF d = "d2" THEN Device("s2", "x", NULL, NoTime, a2)
                        ELSE NoRow] : a2 \in BOOLEAN}
    /\ children \in {[c \in ChildIds |->
                        [is_active |-> IF c = "c1" THEN TRUE ELSE a, user_id |-> "u1"]]
                     : a \in BOOLEAN}
    /\ codes = [k \in Codes |-> IF k = "k1" THEN "c1" ELSE "c2"]
    /\ now = 1
    /\ pc = [p \in Procs |-> "idle"]
    /\ op = [p \in Procs |-> NoOp]
    /\ dev = [p \in Procs |-> NoDev]
    /\ got = [p \in Procs |-> NULL]
    /\ existing = [p \in Procs |-> NULL]
    /\ result = [p \in Procs |-> NULL]
    /\ writes = [p \in Procs |-> NoWrites]
    /\ deleted = [p \in Procs |-> {}]
    /\ consumed = {}
    /\ subscriptions = [u \in UserIds |-> NoRow]
    /\ rate_limit = NoKeys
    /\ expiring = NoKeys
    /\ last_seen = [d \in DeviceIds |-> NoTime]
    /\ connection_status = [d \in DeviceIds |-> "offline"]
    /\ livekit_keys = TRUE
    /\ started = 0
    /\ minted = [d \in DeviceIds |-> 0]
    /\ granted = [d \in DeviceIds |-> 0]
    /\ TokenIdle

AllIdle == \A p \in Procs : pc[p] = "idle"

\* Requests served one after the other.
NextPair ==
    \/ \E d \in DeviceIds, k \in Codes, r \in BOOLEAN :
          AllIdle /\ StartPair(1, d, k, r) /\ UNCHANGED <<tokenVars, authVars, roomVars>>
    \/ \E d \in DeviceIds : AllIdle /\ StartUnpair(1, d) /\ UNCHANGED <<tokenVars, authVars, roomVars>>
    \/ \E u \in UserIds, sx \in RegisterInputs, c \in ChildIds :
          AllIdle /\ StartRegisterAndPair(1, u, sx[1], sx[2], c) /\ UNCHANGED <<tokenVars, authVars, roomVars>>
    \/ \E u \in UserIds, d \in DeviceIds :
          AllIdle /\ StartUnpairById(1, u, d) /\ UNCHANGED <<tokenVars, authVars, roomVars>>
    \/ \E p \in Procs : PairVerify(p) /\ UNCHANGED <<tokenVars, authVars, roomVars>>
    \/ \E p \in Procs : PairDelete(p) /\ UNCHANGED <<tokenVars, authVars, roomVars>>
    \/ \E p \in Procs : PairGetChild(p) /\ UNCHANGED <<tokenVars, authVars, roomVars>>
    \/ \E p \in Procs : PairGetExisting(p) /\ UNCHANGED <<tokenVars, authVars, roomVars>>
    \/ \E p \in Procs : PairEvict(p) /\ UNCHANGED <<tokenVars, authVars, roomVars>>
    \/ \E p \in Procs : PairSet(p) /\ UNCHANGED <<tokenVars, authVars, roomVars>>
    \/ \E p \in Procs : Unpair(p) /\ UNCHANGED <<tokenVars, authVars, roomVars>>
    \/ \E p \in Procs : RpGetChild(p) /\ UNCHANGED <<tokenVars, authVars, roomVars>>
    \/ \E p \in Procs : RpGetSerial(p) /\ UNCHANGED <<tokenVars, authVars, roomVars>>
    \/ \E p \in Procs : RpUnpairPrevious(p) /\ UNCHANGED <<tokenVars, authVars, roomVars>>
    \/ \E p \in Procs : RpGetChildDevice(p) /\ UNCHANGED <<tokenVars, authVars, roomVars>>
    \/ \E p \in Procs : RpUnpairChildDevice(p) /\ UNCHANGED <<tokenVars, authVars, roomVars>>
    \/ \E p \in Procs : RpPairExisting(p) /\ UNCHANGED <<tokenVars, authVars, roomVars>>
    \/ \E p \in Procs : RpGetExistingChildDevice(p) /\ UNCHANGED <<tokenVars, authVars, roomVars>>
    \/ \E p \in Procs : RpUnpairExisting(p) /\ UNCHANGED <<tokenVars, authVars, roomVars>>
    \/ \E p \in Procs : RpCreate(p) /\ UNCHANGED <<tokenVars, authVars, roomVars>>
    \/ \E p \in Procs : RpSetPairing(p) /\ UNCHANGED <<tokenVars, authVars, roomVars>>
    \/ \E sr \in RegisterSerials :
          AllIdle /\ StartRegister(1, sr) /\ UNCHANGED <<tokenVars, authVars, roomVars>>
    \/ \E p \in Procs : RgExists(p) /\ UNCHANGED <<tokenVars, authVars, roomVars>>
    \/ \E p \in Procs : RgCreate(p) /\ UNCHANGED <<tokenVars, authVars, roomVars>>
    \/ \E p \in Procs : UbGet(p) /\ UNCHANGED <<tokenVars, authVars, roomVars>>
    \/ \E p \in Procs : UbGetChild(p) /\ UNCHANGED <<tokenVars, authVars, roomVars>>
    \/ \E p \in Procs : UbUnpair(p) /\ UNCHANGED <<tokenVars, authVars, roomVars>>
    \/ \E p \in Procs : Finish(p) /\ UNCHANGED <<tokenVars, authVars, roomVars>>
    \/ \E p \in Procs : Cancel(p) /\ UNCHANGED <<tokenVars, authVars, roomVars>>
    \/ Tick /\ UNCHANGED <<tokenVars, authVars, roomVars>>

PairSpec == InitPair /\ [][NextPair]_vars

\* Requests in flight together, contending for child c1: two pairing codes
\* for it are outstanding and the parent app registers devices for it.
InitRace ==
    /\ devices = [d \in DeviceIds |->
                    IF d = "d1" THEN Device("s1", "x", NULL, NoTime, TRUE)
                    ELSE IF d = "d2" THEN Device("s2", "x", NULL, NoTime, TRUE)
                    ELSE NoRow]
    /\ children = [c \in ChildIds |-> [is_active |-> TRUE, user_id |-> "u1"]]
    /\ codes = [k \in Codes |-> "c1"]
    /\ now = 1
    /\ pc = [p \in Procs |-> "idle"]
    /\ op = [p \in Procs |-> NoOp]
    /\ dev = [p \in Procs |-> NoDev]
    /\ got = [p \in Procs |-> NULL]
    /\ existing = [p \in Procs |-> NULL]
    /\ result = [p \in Procs |-> NULL]
    /\ writes = [p \in Procs |-> NoWrites]
    /\ deleted = [p \in Procs |-> {}]
    /\ consumed = {}
    /\ subscriptions = [u \in UserIds |-> NoRow]
    /\ rate_limit = NoKeys
    /\ expiring = NoKeys
    /\ last_seen = [d \in DeviceIds |-> NoTime]
    /\ connection_status = [d \in DeviceIds |-> "offline"]
    /\ livekit_keys = TRUE
    /\ started = 0
    /\ minted = [d \in DeviceIds |-> 0]
    /\ granted = [d \in DeviceIds |-> 0]
    /\ TokenIdle

NextRace ==
    \/ \E p \in Procs, d \in DeviceIds, k \in Codes : StartPair(p, d, k, TRUE) /\ UNCHANGED <<tokenVars, authVars, roomVars>>
    \/ \E p \in Procs, sx \in RaceInputs : StartRegisterAndPair(p, "u1", sx[1], sx[2], "c1") /\ UNCHANGED <<tokenVars, authVars, roomVars>>
    \/ \E p \in Procs : PairVerify(p) /\ UNCHANGED <<tokenVars, authVars, roomVars>>
    \/ \E p \in Procs : PairDelete(p) /\ UNCHANGED <<tokenVars, authVars, roomVars>>
    \/ \E p \in Procs : PairGetChild(p) /\ UNCHANGED <<tokenVars, authVars, roomVars>>
    \/ \E p \in Procs : PairGetExisting(p) /\ UNCHANGED <<tokenVars, authVars, roomVars>>
    \/ \E p \in Procs : PairEvict(p) /\ UNCHANGED <<tokenVars, authVars, roomVars>>
    \/ \E p \in Procs : PairSet(p) /\ UNCHANGED <<tokenVars, authVars, roomVars>>
    \/ \E p \in Procs : RpGetChild(p) /\ UNCHANGED <<tokenVars, authVars, roomVars>>
    \/ \E p \in Procs : RpGetSerial(p) /\ UNCHANGED <<tokenVars, authVars, roomVars>>
    \/ \E p \in Procs : RpGetChildDevice(p) /\ UNCHANGED <<tokenVars, authVars, roomVars>>
    \/ \E p \in Procs : RpUnpairChildDevice(p) /\ UNCHANGED <<tokenVars, authVars, roomVars>>
    \/ \E p \in Procs : RpPairExisting(p) /\ UNCHANGED <<tokenVars, authVars, roomVars>>
    \/ \E p \in Procs : RpGetExistingChildDevice(p) /\ UNCHANGED <<tokenVars, authVars, roomVars>>
    \/ \E p \in Procs : RpUnpairExisting(p) /\ UNCHANGED <<tokenVars, authVars, roomVars>>
    \/ \E p \in Procs : RpCreate(p) /\ UNCHANGED <<tokenVars, authVars, roomVars>>
    \/ \E p \in Procs : RpSetPairing(p) /\ UNCHANGED <<tokenVars, authVars, roomVars>>
    \/ \E p \in Procs : Finish(p) /\ UNCHANGED <<tokenVars, authVars, roomVars>>
    \/ \E p \in Procs : Cancel(p) /\ UNCHANGED <<tokenVars, authVars, roomVars>>

RaceSpec == InitRace /\ [][NextRace]_vars

----------------------------------------------------------------------------
(* VoiceTokenService *)

\* Rate limits by subscription plan; -1 is unlimited.
RATE_LIMITS == [free |-> 50, basic |-> 200, premium |-> -1]

Subscription(plan, status, expires) ==
    [exists |-> TRUE, plan_type |-> plan, status |-> status, expires_at |-> expires]

\* Redis keeps a counter as its decimal string; a string is the sequence of
\* its digits.
RECURSIVE str(_)
str(n) == IF n < 10 THEN <<n>> ELSE Append(str(n \div 10), n % 10)

RECURSIVE int(_)
int(s) == IF Len(s) = 1 THEN s[1] ELSE 10 * int(SubSeq(s, 1, Len(s) - 1)) + s[Len(s)]

\* INCR: a missing key counts from 0.
redis_incr(store, key) ==
    IF key \in DOMAIN store
    THEN [store EXCEPT ![key] = str(int(@) + 1)]
    ELSE (key :> str(1)) @@ store

\* _increment_rate_limit: (next_midnight - now).total_seconds()
seconds_until_midnight(t) == (t \div DayLen + 1) * DayLen - t

is_expired_inclusive(s) ==
    IF s.expires_at = NoTime THEN FALSE ELSE now >= s.expires_at[1]

is_expired(s) ==
    IF s.expires_at = NoTime THEN FALSE ELSE now > s.expires_at[1]

_is_subscription_active(s) == s.status = "active" /\ ~is_expired(s)

_get_daily_limit(s) ==
    IF s.plan_type \in DOMAIN RATE_LIMITS THEN RATE_LIMITS[s.plan_type] ELSE 50

\* Fault: a counter equal to the limit still passes.
_check_rate_limit_inclusive(store, d, s) ==
    LET daily_limit == _get_daily_limit(s) IN
    IF daily_limit = -1 THEN TRUE
    ELSE IF d \notin DOMAIN store THEN TRUE
    ELSE int(store[d]) <= daily_limit

_check_rate_limit(store, d, s) ==
    LET daily_limit == _get_daily_limit(s) IN
    IF daily_limit = -1 THEN TRUE
    ELSE IF d \notin DOMAIN store THEN TRUE
    ELSE int(store[d]) < daily_limit

TSlotFree(p) == IF p = 1 THEN TRUE ELSE tpc[p - 1] # "idle"

TGoto(p, label) ==
    /\ tpc' = [tpc EXCEPT ![p] = label]
    /\ UNCHANGED token_result

TReturn(p, code) ==
    /\ tpc' = [tpc EXCEPT ![p] = "returned"]
    /\ token_result' = [token_result EXCEPT ![p] = code]

TRaised(p, exc) ==
    /\ tpc' = [tpc EXCEPT ![p] = "raised"]
    /\ token_result' = [token_result EXCEPT ![p] = exc]

\* generate_token(device) on a service built with or without a Redis client;
\* the device is one the caller has authenticated.
StartToken(p, d, r) ==
    /\ tpc[p] = "idle" /\ TSlotFree(p)
    /\ started < MaxCalls
    /\ devices[d].exists /\ devices[d].is_active
    /\ started' = started + 1
    /\ call' = [call EXCEPT ![p] = [device |-> d, redis |-> r]]
    /\ TGoto(p, "validate")
    /\ UNCHANGED <<subscriptions, rate_limit, expiring, last_seen, connection_status, livekit_keys,
                   subscription, issued, charged>>
    /\ UNCHANGED <<devices, children, now, authVars, roomVars, pairLocals, minted, granted, seen_before>>

\* Fault: the child is looked at before device.child_id.
TValidate_child_first(p) ==
    /\ tpc[p] = "validate"
    /\ LET child_id == devices[call[p].device].child_id IN
       IF child_id = NULL \/ ~children[child_id].is_active
       THEN TReturn(p, "CHILD_NOT_FOUND")
       ELSE TGoto(p, "get_subscription")
    /\ UNCHANGED <<subscriptions, rate_limit, expiring, last_seen, connection_status, livekit_keys,
                   started, call, subscription, issued, charged>>
    /\ UNCHANGED <<devices, children, now, authVars, roomVars, pairLocals, minted, granted, seen_before>>

\* 1. device-child pairing, 2. the paired child.
TValidate(p) ==
    /\ tpc[p] = "validate"
    /\ LET child_id == devices[call[p].device].child_id IN
       IF child_id = NULL
       THEN TReturn(p, "DEVICE_NOT_PAIRED")
       ELSE IF ~children[child_id].is_active
       THEN TReturn(p, "CHILD_NOT_FOUND")
       ELSE TGoto(p, "get_subscription")
    /\ UNCHANGED <<subscriptions, rate_limit, expiring, last_seen, connection_status, livekit_keys,
                   started, call, subscription, issued, charged>>
    /\ UNCHANGED <<devices, children, now, authVars, roomVars, pairLocals, minted, granted, seen_before>>

\* 3. _get_subscription(child.user_id) and _is_subscription_active.
TGetSubscription(p) ==
    /\ tpc[p] = "get_subscription"
    /\ LET s == subscriptions[children[devices[call[p].device].child_id].user_id] IN
       /\ subscription' = [subscription EXCEPT ![p] = s]
       /\ IF ~s.exists
          THEN TReturn(p, "SUBSCRIPTION_NOT_FOUND")
          ELSE IF ~_is_subscription_active(s)
          THEN TReturn(p, "SUBSCRIPTION_INACTIVE")
          ELSE IF call[p].redis
          THEN TGoto(p, "check_rate_limit")
          ELSE TGoto(p, "create_token")
    /\ UNCHANGED <<subscriptions, rate_limit, expiring, last_seen, connection_status, livekit_keys,
                   started, call, issued, charged>>
    /\ UNCHANGED <<devices, children, now, authVars, roomVars, pairLocals, minted, granted, seen_before>>

\* 4. if self.redis: _check_rate_limit(device, subscription)
TCheckRateLimit(p) ==
    /\ tpc[p] = "check_rate_limit"
    /\ IF _check_rate_limit(rate_limit, call[p].device, subscription[p])
       THEN TGoto(p, "create_token")
       ELSE TReturn(p, "RATE_LIMIT_EXCEEDED")
    /\ UNCHANGED <<subscriptions, rate_limit, expiring, last_seen, connection_status, livekit_keys,
                   started, call, subscription, issued, charged>>
    /\ UNCHANGED <<devices, children, now, authVars, roomVars, pairLocals, minted, granted, seen_before>>

\* Fault: quota taken before the token is attempted.
TCreateToken_charged(p) ==
    /\ tpc[p] = "create_token"
    /\ livekit_keys
    /\ rate_limit' = IF call[p].redis THEN redis_incr(rate_limit, call[p].device)
                     ELSE rate_limit
    /\ charged' = [charged EXCEPT ![p] = IF call[p].redis THEN @ + 1 ELSE @]
    /\ \E ok \in BOOLEAN :
          IF ok
          THEN /\ issued' = [issued EXCEPT ![p] = TRUE]
               /\ minted' = [minted EXCEPT ![call[p].device] = @ + 1]
               /\ granted' = [granted EXCEPT ![call[p].device] = @ + 1]
               /\ TGoto(p, "update_last_seen")
          ELSE /\ TReturn(p, "LIVEKIT_ERROR")
               /\ UNCHANGED <<issued, minted, granted>>
    /\ UNCHANGED <<subscriptions, expiring, last_seen, connection_status, livekit_keys,
                   started, call, subscription>>
    /\ UNCHANGED <<devices, children, now, authVars, roomVars, pairLocals, seen_before>>

\* 6. get_livekit_client() raises LiveKitConfigError without the keys, which
\* generate_token does not catch; create_token mints the token or raises
\* LiveKitTokenError, which it does.
TCreateToken(p) ==
    /\ tpc[p] = "create_token"
    /\ IF ~livekit_keys
       THEN TRaised(p, "LiveKitConfigError") /\ UNCHANGED <<issued, minted, granted>>
       ELSE \E ok \in BOOLEAN :
              IF ok
              THEN /\ issued' = [issued EXCEPT ![p] = TRUE]
                   /\ minted' = [minted EXCEPT ![call[p].device] = @ + 1]
                   /\ granted' = [granted EXCEPT ![call[p].device] = @ + 1]
                   /\ TGoto(p, "update_last_seen")
              ELSE /\ TReturn(p, "LIVEKIT_ERROR")
                   /\ UNCHANGED <<issued, minted, granted>>
    /\ UNCHANGED <<subscriptions, rate_limit, expiring, last_seen, connection_status, livekit_keys,
                   started, call, subscription, charged>>
    /\ UNCHANGED <<devices, children, now, authVars, roomVars, pairLocals, seen_before>>

\* 7. device_repo.update_last_seen(device)
\* The flush writes the row; it waits while another request's uncommitted
\* UPDATE of the same row holds the row lock.
TUpdateLastSeen(p) ==
    /\ tpc[p] = "update_last_seen"
    /\ \A q \in Procs \ {p} :
          seen_before[q] # <<>> => call[q].device # call[p].device
    /\ seen_before' = [seen_before EXCEPT ![p] =
                          <<last_seen[call[p].device], connection_status[call[p].device]>>]
    /\ last_seen' = [last_seen EXCEPT ![call[p].device] = <<now>>]
    /\ connection_status' = [connection_status EXCEPT ![call[p].device] = "online"]
    /\ IF call[p].redis THEN TGoto(p, "incr") ELSE TReturn(p, "OK")
    /\ UNCHANGED <<subscriptions, rate_limit, expiring, livekit_keys,
                   started, call, subscription, issued, charged>>
    /\ UNCHANGED <<devices, children, now, authVars, roomVars, pairLocals, minted, granted>>

\* 8. _increment_rate_limit: redis.incr(key)
TIncr(p) ==
    /\ tpc[p] = "incr"
    /\ rate_limit' = redis_incr(rate_limit, call[p].device)
    /\ charged' = [charged EXCEPT ![p] = @ + 1]
    /\ TGoto(p, "ttl")
    /\ UNCHANGED <<subscriptions, expiring, last_seen, connection_status, livekit_keys,
                   started, call, subscription, issued>>
    /\ UNCHANGED <<devices, children, now, authVars, roomVars, pairLocals, minted, granted, seen_before>>

\* redis.ttl(key) is -1 for a key without expiry.
TTtl(p) ==
    /\ tpc[p] = "ttl"
    /\ IF call[p].device \in DOMAIN rate_limit /\ call[p].device \notin DOMAIN expiring
       THEN TGoto(p, "expire")
       ELSE TReturn(p, "OK")
    /\ UNCHANGED <<subscriptions, rate_limit, expiring, last_seen, connection_status, livekit_keys,
                   started, call, subscription, issued, charged>>
    /\ UNCHANGED <<devices, children, now, authVars, roomVars, pairLocals, minted, granted, seen_before>>

\* Fault: the key is given a full day to live.
TExpire_full_day(p) ==
    /\ tpc[p] = "expire"
    /\ expiring' = IF call[p].device \in DOMAIN rate_limit
                   THEN (call[p].device :> now + DayLen) @@ expiring
                   ELSE expiring
    /\ TReturn(p, "OK")
    /\ UNCHANGED <<subscriptions, rate_limit, last_seen, connection_status, livekit_keys,
                   started, call, subscription, issued, charged>>
    /\ UNCHANGED <<devices, children, now, authVars, roomVars, pairLocals, minted, granted, seen_before>>

\* redis.expire(key, seconds_until_midnight): the key lapses at now plus the
\* seconds given; nothing happens when the key is gone.
TExpire(p) ==
    /\ tpc[p] = "expire"
    /\ expiring' = IF call[p].device \in DOMAIN rate_limit
                   THEN (call[p].device :> now + seconds_until_midnight(now)) @@ expiring
                   ELSE expiring
    /\ TReturn(p, "OK")
    /\ UNCHANGED <<subscriptions, rate_limit, last_seen, connection_status, livekit_keys,
                   started, call, subscription, issued, charged>>
    /\ UNCHANGED <<devices, children, now, authVars, roomVars, pairLocals, minted, granted, seen_before>>

\* The TokenResult has gone back to the caller, or the exception has.
TFinish(p) ==
    /\ tpc[p] \in {"returned", "raised"}
    /\ tpc' = [tpc EXCEPT ![p] = "idle"]
    /\ call' = [call EXCEPT ![p] = NoCall]
    /\ subscription' = [subscription EXCEPT ![p] = NoRow]
    /\ token_result' = [token_result EXCEPT ![p] = NULL]
    /\ issued' = [issued EXCEPT ![p] = FALSE]
    /\ charged' = [charged EXCEPT ![p] = 0]
    /\ seen_before' = [seen_before EXCEPT ![p] = <<>>]
    /\ UNCHANGED <<subscriptions, rate_limit, expiring, last_seen, connection_status, livekit_keys, started>>
    /\ UNCHANGED <<devices, children, now, authVars, roomVars, pairLocals, minted, granted>>

\* The request stops at an await of _increment_rate_limit: the task is
\* cancelled, or the Redis command raises.  Nothing in generate_token catches
\* it; the session closes without a commit, which rolls the last_seen UPDATE
\* back.  What Redis has already done stays done.
TCancel(p) ==
    /\ tpc[p] \in {"incr", "ttl", "expire"}
    /\ tpc' = [tpc EXCEPT ![p] = "idle"]
    /\ last_seen' = IF seen_before[p] = <<>> THEN last_seen
                    ELSE [last_seen EXCEPT ![call[p].device] = seen_before[p][1]]
    /\ connection_status' =
          IF seen_before[p] = <<>> THEN connection_status
          ELSE [connection_status EXCEPT ![call[p].device] = seen_before[p][2]]
    /\ seen_before' = [seen_before EXCEPT ![p] = <<>>]
    /\ call' = [call EXCEPT ![p] = NoCall]
    /\ subscription' = [subscription EXCEPT ![p] = NoRow]
    /\ token_result' = [token_result EXCEPT ![p] = NULL]
    /\ issued' = [issued EXCEPT ![p] = FALSE]
    /\ charged' = [charged EXCEPT ![p] = 0]
    /\ UNCHANGED <<subscriptions, rate_limit, expiring, livekit_keys, started>>
    /\ UNCHANGED <<devices, children, now, authVars, roomVars, pairLocals, minted, granted>>

\* A second passes; Redis drops the keys whose TTL has run out.
TokenTick ==
    /\ now < MaxTime
    /\ now' = now + 1
    /\ LET live == {k \in DOMAIN rate_limit :
                       k \in DOMAIN expiring => expiring[k] > now + 1} IN
       /\ rate_limit' = [k \in live |-> rate_limit[k]]
       /\ expiring' = [k \in live \cap DOMAIN expiring |-> expiring[k]]
    /\ minted' = IF (now + 1) % DayLen = 0 THEN [d \in DeviceIds |-> 0] ELSE minted
    /\ granted' = [d \in DeviceIds |->
                      IF d \in DOMAIN rate_limit /\ d \notin DOMAIN rate_limit'
                      THEN 0 ELSE granted[d]]
    /\ UNCHANGED <<subscriptions, last_seen, connection_status, livekit_keys, started,
                   tpc, call, subscription, token_result, issued, charged>>
    /\ UNCHANGED <<devices, children, authVars, roomVars, pairLocals, seen_before>>

\* Device d1 paired with c1 or not, c1 active or not, its owner u1 with any
\* subscription or none, d1's counter absent or around a plan limit; device
\* d2 paired with c2 of u2, whose free plan is cancelled.
InitToken ==
    /\ devices \in {[d \in DeviceIds |->
                        IF d = "d1" THEN Device("s1", "x", c, NoTime, TRUE)
                        ELSE IF d = "d2" THEN Device("s2", "x", "c2", <<1>>, TRUE)
                        ELSE NoRow] : c \in {NULL, "c1"}}
    /\ children \in {[c \in ChildIds |->
                        IF c = "c1" THEN [is_active |-> a, user_id |-> "u1"]
                        ELSE [is_active |-> TRUE, user_id |-> "u2"]] : a \in BOOLEAN}
    /\ subscriptions \in {[u \in UserIds |->
                             IF u = "u1" THEN s
                             ELSE Subscription("free", "cancelled", NoTime)]
                          : s \in {NoRow} \cup
                                  {Subscription(pl, st, ex) :
                                      pl \in DOMAIN RATE_LIMITS,
                                      st \in {"active", "cancelled", "expired", "trial"},
                                      ex \in {NoTime, <<1>>}}}
    /\ rate_limit \in {NoKeys} \cup
                      {("d1" :> str(RATE_LIMITS[pl] - i)) :
                          pl \in {"free", "basic"}, i \in {0, 1}}
    /\ expiring = [k \in DOMAIN rate_limit |-> DayLen]
    /\ last_seen = [d \in DeviceIds |-> NoTime]
    /\ connection_status = [d \in DeviceIds |-> "offline"]
    /\ livekit_keys \in BOOLEAN
    /\ started = 0
    /\ minted = [d \in DeviceIds |-> IF d \in DOMAIN rate_limit THEN int(rate_limit[d]) ELSE 0]
    /\ granted = [d \in DeviceIds |-> IF d \in DOMAIN rate_limit THEN int(rate_limit[d]) ELSE 0]
    /\ TokenIdle
    /\ codes = [k \in Codes |-> IF k = "k1" THEN "c1" ELSE "c2"]
    /\ now = 1
    /\ pc = [p \in Procs |-> "idle"]
    /\ op = [p \in Procs |-> NoOp]
    /\ dev = [p \in Procs |-> NoDev]
    /\ got = [p \in Procs |-> NULL]
    /\ existing = [p \in Procs |-> NULL]
    /\ result = [p \in Procs |-> NULL]
    /\ writes = [p \in Procs |-> NoWrites]
    /\ deleted = [p \in Procs |-> {}]
    /\ consumed = {}

NextToken ==
    \/ \E p \in Procs, d \in DeviceIds, r \in BOOLEAN : StartToken(p, d, r)
    \/ \E p \in Procs : TValidate(p)
    \/ \E p \in Procs : TGetSubscription(p)
    \/ \E p \in Procs : TCheckRateLimit(p)
    \/ \E p \in Procs : TCreateToken(p)
    \/ \E p \in Procs : TUpdateLastSeen(p)
    \/ \E p \in Procs : TIncr(p)
    \/ \E p \in Procs : TTtl(p)
    \/ \E p \in Procs : TExpire(p)
    \/ \E p \in Procs : TFinish(p)
    \/ TokenTick

TokenSpec == InitToken /\ [][NextToken]_vars

\* The service as the router builds it (always with the Redis client), for a
\* device d1 whose owner holds an active plan with a daily limit; d1's
\* counter is absent, one below the limit or at the limit.
LimitStart ==
    /\ devices = [d \in DeviceIds |->
                     IF d = "d1" THEN Device("s1", "x", "c1", <<1>>, TRUE)
                     ELSE IF d = "d2" THEN Device("s2", "x", "c2", <<1>>, TRUE)
                     ELSE NoRow]
    /\ children = [c \in ChildIds |->
                      [is_active |-> TRUE, user_id |-> IF c = "c1" THEN "u1" ELSE "u2"]]
    /\ \E pl \in {"free", "basic"} :
          /\ subscriptions = [u \in UserIds |->
                                 IF u = "u1" THEN Subscription(pl, "active", NoTime)
                                 ELSE Subscription("free", "cancelled", NoTime)]
          /\ rate_limit \in {NoKeys} \cup
                            {("d1" :> str(RATE_LIMITS[pl] - i)) : i \in {0, 1}}
    /\ last_seen = [d \in DeviceIds |-> NoTime]
    /\ connection_status = [d \in DeviceIds |-> "offline"]
    /\ livekit_keys = TRUE
    /\ started = 0
    /\ minted = [d \in DeviceIds |-> IF d \in DOMAIN rate_limit THEN int(rate_limit[d]) ELSE 0]
    /\ granted = [d \in DeviceIds |-> IF d \in DOMAIN rate_limit THEN int(rate_limit[d]) ELSE 0]
    /\ TokenIdle
    /\ codes = [k \in Codes |-> IF k = "k1" THEN "c1" ELSE "c2"]
    /\ now = 1
    /\ pc = [p \in Procs |-> "idle"]
    /\ op = [p \in Procs |-> NoOp]
    /\ dev = [p \in Procs |-> NoDev]
    /\ got = [p \in Procs |-> NULL]
    /\ existing = [p \in Procs |-> NULL]
    /\ result = [p \in Procs |-> NULL]
    /\ writes = [p \in Procs |-> NoWrites]
    /\ deleted = [p \in Procs |-> {}]
    /\ consumed = {}

\* Every counter was given its expiry by the increment that created it.
InitLimit ==
    /\ LimitStart
    /\ expiring = [k \in DOMAIN rate_limit |-> DayLen]

\* Concurrent requests that all run to completion.
NextLimit ==
    \/ \E p \in Procs, d \in DeviceIds : StartToken(p, d, TRUE)
    \/ \E p \in Procs : TValidate(p)
    \/ \E p \in Procs : TGetSubscription(p)
    \/ \E p \in Procs : TCheckRateLimit(p)
    \/ \E p \in Procs : TCreateToken(p)
    \/ \E p \in Procs : TUpdateLastSeen(p)
    \/ \E p \in Procs : TIncr(p)
    \/ \E p \in Procs : TTtl(p)
    \/ \E p \in Procs : TExpire(p)
    \/ \E p \in Procs : TFinish(p)
    \/ TokenTick

LimitSpec == InitLimit /\ [][NextLimit]_vars

\* No request of device d is being processed.
DeviceIdle(d) == \A q \in Procs : tpc[q] # "idle" => call[q].device # d

\* The requests of any one device are processed one at a time, each to
\* completion; requests of different devices may overlap.
NextSerial ==
    \/ \E p \in Procs, d \in DeviceIds : DeviceIdle(d) /\ StartToken(p, d, TRUE)
    \/ \E p \in Procs : TValidate(p)
    \/ \E p \in Procs : TGetSubscription(p)
    \/ \E p \in Procs : TCheckRateLimit(p)
    \/ \E p \in Procs : TCreateToken(p)
    \/ \E p \in Procs : TUpdateLastSeen(p)
    \/ \E p \in Procs : TIncr(p)
    \/ \E p \in Procs : TTtl(p)
    \/ \E p \in Procs : TExpire(p)
    \/ \E p \in Procs : TFinish(p)
    \/ TokenTick

SerialSpec == InitLimit /\ [][NextSerial]_vars

\* A counter below the limit may also be one that no increment has yet given
\* an expiry: the requests that raised it were all stopped before EXPIRE.
InitCancel ==
    /\ LimitStart
    /\ expiring \in {[k \in DOMAIN rate_limit |-> DayLen]} \cup
                    (IF _check_rate_limit(rate_limit, "d1", subscriptions["u1"])
                     THEN {NoKeys} ELSE {})

\* Concurrent requests, any of which may be stopped inside _increment_rate_limit.
NextCancel ==
    \/ \E p \in Procs, d \in DeviceIds : StartToken(p, d, TRUE)
    \/ \E p \in Procs : TValidate(p)
    \/ \E p \in Procs : TGetSubscription(p)
    \/ \E p \in Procs : TCheckRateLimit(p)
    \/ \E p \in Procs : TCreateToken(p)
    \/ \E p \in Procs : TUpdateLastSeen(p)
    \/ \E p \in Procs : TIncr(p)
    \/ \E p \in Procs : TTtl(p)
    \/ \E p \in Procs : TExpire(p)
    \/ \E p \in Procs : TFinish(p)
    \/ \E p \in Procs : TCancel(p)
    \/ TokenTick

CancelSpec == InitCancel /\ [][NextCancel]_vars

\* device_health(device) for a device the caller has authenticated: the
\* handler builds its response from the row and returns, without an await.
DeviceHealth(p, d) ==
    /\ tpc[p] = "idle" /\ TSlotFree(p)
    /\ started < MaxCalls
    /\ devices[d].exists /\ devices[d].is_active
    /\ started' = started + 1
    /\ call' = [call EXCEPT ![p] = [device |-> d, redis |-> FALSE]]
    /\ TReturn(p, "healthy")
    /\ UNCHANGED <<subscriptions, rate_limit, expiring, last_seen, connection_status,
                   livekit_keys, subscription, issued, charged>>
    /\ UNCHANGED <<devices, children, now, authVars, roomVars, pairLocals, minted, granted, seen_before>>

\* devices.last_seen of a device that was last heard of before the requests.
SeenStart == <<0>>

\* Devices d1 and d2 as in LimitStart, both offline and last seen earlier;
\* d1's owner holds an active plan, d1's counter is absent or at the limit.
InitSeen ==
    /\ devices = [d \in DeviceIds |->
                     IF d = "d1" THEN Device("s1", "x", "c1", <<1>>, TRUE)
                     ELSE IF d = "d2" THEN Device("s2", "x", "c2", <<1>>, TRUE)
                     ELSE NoRow]
    /\ children = [c \in ChildIds |->
                      [is_active |-> TRUE, user_id |-> IF c = "c1" THEN "u1" ELSE "u2"]]
    /\ \E pl \in DOMAIN RATE_LIMITS :
          /\ subscriptions = [u \in UserIds |->
                                 IF u = "u1" THEN Subscription(pl, "active", NoTime)
                                 ELSE Subscription("free", "cancelled", NoTime)]
          /\ rate_limit \in {NoKeys, ("d1" :> str(RATE_LIMITS["free"]))}
    /\ expiring = [k \in DOMAIN rate_limit |-> DayLen]
    /\ last_seen = [d \in DeviceIds |-> SeenStart]
    /\ connection_status \in [DeviceIds -> {"offline", "sleep"}]
    /\ livekit_keys = TRUE
    /\ started = 0
    /\ minted = [d \in DeviceIds |-> IF d \in DOMAIN rate_limit THEN int(rate_limit[d]) ELSE 0]
    /\ granted = [d \in DeviceIds |-> IF d \in DOMAIN rate_limit THEN int(rate_limit[d]) ELSE 0]
    /\ TokenIdle
    /\ codes = [k \in Codes |-> IF k = "k1" THEN "c1" ELSE "c2"]
    /\ now = 1
    /\ pc = [p \in Procs |-> "idle"]
    /\ op = [p \in Procs |-> NoOp]
    /\ dev = [p \in Procs |-> NoDev]
    /\ got = [p \in Procs |-> NULL]
    /\ existing = [p \in Procs |-> NULL]
    /\ result = [p \in Procs |-> NULL]
    /\ writes = [p \in Procs |-> NoWrites]
    /\ deleted = [p \in Procs |-> {}]
    /\ consumed = {}

\* Token requests and health checks of authenticated devices.
NextSeen ==
    \/ \E p \in Procs, d \in DeviceIds : StartToken(p, d, TRUE)
    \/ \E p \in Procs, d \in DeviceIds : DeviceHealth(p, d)
    \/ \E p \in Procs : TValidate(p)
    \/ \E p \in Procs : TGetSubscription(p)
    \/ \E p \in Procs : TCheckRateLimit(p)
    \/ \E p \in Procs : TCreateToken(p)
    \/ \E p \in Procs : TUpdateLastSeen(p)
    \/ \E p \in Procs : TIncr(p)
    \/ \E p \in Procs : TTtl(p)
    \/ \E p \in Procs : TExpire(p)
    \/ \E p \in Procs : TFinish(p)
    \/ TokenTick

SeenSpec == InitSeen /\ [][NextSeen]_vars

----------------------------------------------------------------------------
(* Room names: LiveKitClient.generate_room_name *)

MaxRooms == 2

\* s[:n]
Prefix(s, n) == SubSeq(s, 1, IF Len(s) < n THEN Len(s) ELSE n)

\* Values uuid.uuid4().hex can take, ten hex digits standing for the 32.
Uuid4Hex ==
    {<<"0", "0", "0", "0", "0", "0", "0", a, b, c>> :
        a \in {"0", "7", "f"}, b \in {"0", "f"}, c \in {"0", "f"}}

RoomDeviceIds == {<<"d", "e", "v", "i", "c", "e", "-", "1">>,
                  <<"d", "e", "v", "i", "c", "e", "u", "u", "i", "d">>}
RoomChildIds == {<<"c", "h", "i", "l", "d", "-", "1">>,
                 <<"c", "h", "i", "l", "d", "u", "u", "i", "d">>}

\* f"voice-{device_id[:8]}-{child_id[:8]}-{session_id}", session_id being
\* the first eight hex digits of the uuid drawn.
generate_room_name(device_id, child_id, uuid4) ==
    LET session_id == Prefix(uuid4, 8) IN
    <<"v", "o", "i", "c", "e", "-">> \o Prefix(device_id, 8) \o <<"-">>
        \o Prefix(child_id, 8) \o <<"-">> \o session_id

\* One call; uuid4 draws any value.
GenerateRoomName(device_id, child_id) ==
    /\ Len(rooms) < MaxRooms
    /\ \E uuid4 \in Uuid4Hex :
          rooms' = Append(rooms, generate_room_name(device_id, child_id, uuid4))
    /\ UNCHANGED <<pairVars, tokenVars, authVars>>

----------------------------------------------------------------------------
(* Device authentication (api/v1/device/auth.py).  Strings that are parsed *)
(* or concatenated are sequences of one-character strings.                 *)

\* Seconds a timestamp may differ from the server clock.
Window == 300

\* time.time() when the first request arrives.
Epoch == 2 * Window

digit ==
    ("0" :> 0) @@ ("1" :> 1) @@ ("2" :> 2) @@ ("3" :> 3) @@ ("4" :> 4) @@
    ("5" :> 5) @@ ("6" :> 6) @@ ("7" :> 7) @@ ("8" :> 8) @@ ("9" :> 9)

RECURSIVE lstrip(_)
lstrip(s) == IF s # <<>> /\ s[1] = " " THEN lstrip(Tail(s)) ELSE s

RECURSIVE rstrip(_)
rstrip(s) ==
    IF s # <<>> /\ s[Len(s)] = " " THEN rstrip(SubSeq(s, 1, Len(s) - 1)) ELSE s

strip(s) == rstrip(lstrip(s))

unsigned(s) == IF s # <<>> /\ s[1] \in {"+", "-"} THEN Tail(s) ELSE s

\* An integer literal of int(): digits, single underscores between digits.
literal_ok(t) ==
    /\ t # <<>>
    /\ \A i \in 1..Len(t) :
          \/ t[i] \in DOMAIN digit
          \/ /\ t[i] = "_"
             /\ 1 < i /\ i < Len(t)
             /\ t[i - 1] \in DOMAIN digit
             /\ t[i + 1] \in DOMAIN digit

RECURSIVE literal_value(_)
literal_value(t) ==
    IF t = <<>> THEN 0
    ELSE LET r == literal_value(SubSeq(t, 1, Len(t) - 1))
             c == t[Len(t)] IN
         IF c = "_" THEN r ELSE 10 * r + digit[c]

\* int(timestamp) returns; otherwise it raises ValueError.
py_int_ok(s) == literal_ok(unsigned(strip(s)))

\* int(timestamp), for a string it accepts.
py_int(s) ==
    LET t == strip(s) IN
    IF t # <<>> /\ t[1] = "-" THEN 0 - literal_value(unsigned(t))
    ELSE literal_value(unsigned(t))

abs(x) == IF x < 0 THEN 0 - x ELSE x

\* Fault: a timestamp exactly Window seconds away is rejected as well.
stale_inclusive(current_time, request_time) ==
    abs(current_time - request_time) >= Window

\* abs(current_time - request_time) > 300
stale(current_time, request_time) ==
    abs(current_time - request_time) > Window

\* A request body: whether its bytes are valid UTF-8 and the text they decode to.
Body(valid, text) == [valid |-> valid, text |-> text]

\* Fault: the serial is left out of the message.
message_without_serial(serial, timestamp, body) == timestamp \o body.text

\* f"{serial}{timestamp}{body.decode('utf-8')}".encode()
message(serial, timestamp, body) == serial \o timestamp \o body.text

\* Fault: the digest is rendered in uppercase hex.
hexdigest_upper(secret, msg) == [form |-> "upper", key |-> secret, msg |-> msg]

\* hmac.new(secret.encode(), message, hashlib.sha256).hexdigest(): HMAC-SHA256
\* taken as collision free, the digest stands for its key and message.
hexdigest(secret, msg) == [form |-> "lower", key |-> secret, msg |-> msg]

\* hmac.compare_digest on two ASCII strings.
compare_digest(a, b) == a = b

\* The signature a device computes (the tests' helper).
generate_signature(serial, timestamp, body, secret) ==
    [form |-> "lower", key |-> secret, msg |-> serial \o timestamp \o body.text]

\* Fault: a timestamp that does not parse skips the freshness check.
verify_device_signature_unparsed(serial, signature, timestamp, body, secret) ==
    IF py_int_ok(timestamp) /\ stale(now, py_int(timestamp)) THEN "False"
    ELSE IF ~body.valid THEN "UnicodeDecodeError"
    ELSE IF signature.form = "nonascii" THEN "TypeError"
    ELSE IF compare_digest(signature,
                           hexdigest(secret, message(serial, timestamp, body)))
         THEN "True"
    ELSE "False"

\* Fault: the server's clock reading is signed in place of the timestamp sent.
verify_device_signature_signs_clock(serial, signature, timestamp, body, secret) ==
    IF ~py_int_ok(timestamp) THEN "False"
    ELSE IF stale(now, py_int(timestamp)) THEN "False"
    ELSE IF ~body.valid THEN "UnicodeDecodeError"
    ELSE IF signature.form = "nonascii" THEN "TypeError"
    ELSE IF compare_digest(signature,
                           hexdigest(secret, message(serial, [i \in 1..Len(str(now)) |->
                               CHOOSE c \in DOMAIN digit : digit[c] = str(now)[i]], body)))
         THEN "True"
    ELSE "False"

\* The outcome of a call made when time.time() reads `now`: the value
\* returned, or the exception that leaves the function.
verify_device_signature(serial, signature, timestamp, body, secret) ==
    IF ~py_int_ok(timestamp) THEN "False"
    ELSE IF stale(now, py_int(timestamp)) THEN "False"
    ELSE IF ~body.valid THEN "UnicodeDecodeError"
    ELSE IF signature.form = "nonascii" THEN "TypeError"
    ELSE IF compare_digest(signature,
                           hexdigest(secret, message(serial, timestamp, body)))
         THEN "True"
    ELSE "False"

\* The secret of the device registered under the serial, <<>> if there is none.
get_device_secret(serial_number) ==
    LET found == {d \in DeviceIds :
                     devices[d].exists /\ devices[d].serial_number = serial_number} IN
    IF found = {} THEN <<>>
    ELSE <<devices[CHOOSE d \in found : TRUE].device_secret>>

\* Inputs

AuthSerials == {<<"S">>, <<"S", "6">>}
AuthSecrets == {"k1", "k2"}
EmptyBody == Body(TRUE, <<>>)
Bodies == {EmptyBody, Body(TRUE, <<"6">>), Body(FALSE, <<>>)}
Timestamps ==
    {<<"2", "9", "9">>, <<"3", "0", "0">>, <<"6", "0", "1">>, <<"6", "6", "6">>,
     <<"6", "_", "6", "6">>, <<"9", "0", "0">>, <<"9", "0", "1">>,
     <<"a", "b", "c">>, <<>>}

\* What a supplied signature was computed from.
Signer(serial, body, secret) == [serial |-> serial, body |-> body, secret |-> secret]
NoSigner == Signer(<<>>, EmptyBody, "")
Signers == {Signer(s, b, k) : s \in AuthSerials, b \in {b \in Bodies : b.valid},
                              k \in AuthSecrets}
SignatureInputs ==
    {[signer |-> g, form |-> f] : g \in Signers, f \in {"lower", "upper"}} \cup
    {[signer |-> NoSigner, form |-> f] : f \in {"junk", "nonascii"}}

\* The X-Device-Signature value: the digest over the timestamp sent, the same
\* digest in uppercase, some other ASCII string, or a string with a non-ASCII
\* character in it.
SignatureOf(sig, timestamp) ==
    IF sig.form \in {"lower", "upper"}
    THEN [generate_signature(sig.signer.serial, timestamp, sig.signer.body,
                             sig.signer.secret) EXCEPT !.form = sig.form]
    ELSE [form |-> sig.form, key |-> "", msg |-> <<>>]

\* A direct call of verify_device_signature.
VerifyCall(serial, sig, timestamp, body, secret) ==
    /\ ~verified.called
    /\ verified' = [called |-> TRUE, serial |-> serial, sig |-> sig,
                    signature |-> SignatureOf(sig, timestamp),
                    timestamp |-> timestamp, body |-> body, secret |-> secret,
                    at |-> now,
                    result |-> verify_device_signature(
                                  serial, SignatureOf(sig, timestamp),
                                  timestamp, body, secret)]
    /\ UNCHANGED <<again, request, response, lookups, replayed>>
    /\ UNCHANGED <<pairVars, tokenVars, roomVars>>

\* The same call once more.
VerifyAgain ==
    /\ verified.called
    /\ again' = [called |-> TRUE, at |-> now,
                 result |-> verify_device_signature(
                               verified.serial, verified.signature,
                               verified.timestamp, verified.body, verified.secret)]
    /\ UNCHANGED <<verified, request, response, lookups, replayed>>
    /\ UNCHANGED <<pairVars, tokenVars, roomVars>>

\* A second of wall-clock time passes.
AuthTick ==
    /\ now < Epoch + MaxTime
    /\ now' = now + 1
    /\ UNCHANGED <<devices, children, pairLocals, tokenVars, authVars, roomVars>>

Headers == {"X-Device-Serial", "X-Device-Signature", "X-Device-Timestamp"}

HTTPException(status_code, detail) == [status |-> status_code, detail |-> detail]

\* verify_device for one request: FastAPI answers 422 when a required header
\* is absent; otherwise the function runs, without an await, to the
\* exception it raises.
VerifyDevice(p, missing, x_device_serial, sig, x_device_timestamp) ==
    /\ ~request[p].sent
    /\ request' = [request EXCEPT ![p] =
                      [sent |-> TRUE, missing |-> missing, serial |-> x_device_serial,
                       sig |-> sig, timestamp |-> x_device_timestamp, at |-> now]]
    /\ IF missing # {}
       THEN /\ response' = [response EXCEPT ![p] = HTTPException(422, "Field required")]
            /\ UNCHANGED lookups
       ELSE LET secret == get_device_secret(x_device_serial)
                body == EmptyBody
                x_device_signature == SignatureOf(sig, x_device_timestamp) IN
            /\ lookups' = [lookups EXCEPT ![p] = @ + 1]
            /\ response' = [response EXCEPT ![p] =
                  IF secret = <<>>
                  THEN HTTPException(401, "Invalid device serial number")
                  ELSE LET ok == verify_device_signature(
                                    x_device_serial, x_device_signature,
                                    x_device_timestamp, body, secret[1]) IN
                       IF ok = "False"
                       THEN HTTPException(401, "Invalid device signature")
                       ELSE IF ok = "True"
                       THEN HTTPException(501, "Device authentication not fully implemented")
                       ELSE HTTPException(500, "Internal Server Error")]
    /\ UNCHANGED <<verified, again, replayed>>
    /\ UNCHANGED <<pairVars, tokenVars, roomVars>>

\* Device d1 is registered under serial S with secret k1, paired with c1,
\* active or deactivated; c1's user holds an active free subscription; no
\* request has been made.
InitAuth ==
    /\ devices \in {[d \in DeviceIds |->
                        IF d = "d1" THEN Device(<<"S">>, "k1", "c1", <<1>>, a)
                        ELSE NoRow] : a \in BOOLEAN}
    /\ children = [c \in ChildIds |->
                      [is_active |-> TRUE, user_id |-> IF c = "c1" THEN "u1" ELSE "u2"]]
    /\ subscriptions = [u \in UserIds |->
                          IF u = "u1" THEN Subscription("free", "active", NoTime) ELSE NoRow]
    /\ rate_limit = NoKeys
    /\ expiring = NoKeys
    /\ last_seen = [d \in DeviceIds |-> NoTime]
    /\ connection_status = [d \in DeviceIds |-> "offline"]
    /\ livekit_keys = TRUE
    /\ started = 0
    /\ minted = [d \in DeviceIds |-> 0]
    /\ granted = [d \in DeviceIds |-> 0]
    /\ TokenIdle
    /\ codes = [k \in Codes |-> IF k = "k1" THEN "c1" ELSE "c2"]
    /\ now = Epoch
    /\ pc = [p \in Procs |-> "idle"]
    /\ op = [p \in Procs |-> NoOp]
    /\ dev = [p \in Procs |-> NoDev]
    /\ got = [p \in Procs |-> NULL]
    /\ existing = [p \in Procs |-> NULL]
    /\ result = [p \in Procs |-> NULL]
    /\ writes = [p \in Procs |-> NoWrites]
    /\ deleted = [p \in Procs |-> {}]
    /\ consumed = {}

\* Calls of the signature verifier, as its unit tests make them.
NextVerify ==
    \/ \E serial \in AuthSerials, sig \in SignatureInputs, timestamp \in Timestamps,
          body \in Bodies, secret \in AuthSecrets :
          VerifyCall(serial, sig, timestamp, body, secret)
    \/ VerifyAgain
    \/ AuthTick

VerifySpec == InitAuth /\ [][NextVerify]_vars

RequestSignatures ==
    {[signer |-> Signer(<<"S">>, EmptyBody, "k1"), form |-> "lower"],
     [signer |-> NoSigner, form |-> "junk"],
     [signer |-> NoSigner, form |-> "nonascii"]}

RequestTimestamps == {<<"2", "9", "9">>, <<"6", "6", "6">>, <<"a", "b", "c">>}

\* Requests to an endpoint that depends on verify_device.
NextAuth ==
    \/ \E p \in Procs, h \in {{}} \cup {{x} : x \in Headers},
          serial \in AuthSerials, sig \in RequestSignatures,
          timestamp \in RequestTimestamps :
          VerifyDevice(p, h, serial, sig, timestamp)
    \/ AuthTick

AuthSpec == InitAuth /\ [][NextAuth]_vars

\* The signature string of the last call presented once more, with the same
\* serial and secret and any timestamp and body.
VerifyReplay(timestamp, body) ==
    /\ verified.called
    /\ ~replayed.called
    /\ replayed' = [called |-> TRUE, timestamp |-> timestamp, body |-> body, at |-> now,
                    result |-> verify_device_signature(
                                  verified.serial, verified.signature,
                                  timestamp, body, verified.secret)]
    /\ UNCHANGED <<verified, again, request, response, lookups>>
    /\ UNCHANGED <<pairVars, tokenVars, roomVars>>

ReplayTimestamps ==
    {<<"6", "6">>, <<"6", "6", "6">>, <<"6", "6", "6", " ">>, <<"6", "6", "6", "6">>}

ReplayBodies ==
    {EmptyBody, Body(TRUE, <<"6">>), Body(TRUE, <<" ">>), Body(TRUE, <<" ", "6">>)}

\* A device signs a request; the signature it sent is then presented with
\* other timestamps and bodies.
NextReplay ==
    \/ \E timestamp \in ReplayTimestamps, body \in ReplayBodies, secret \in AuthSecrets :
          VerifyCall(<<"S">>, [signer |-> Signer(<<"S">>, body, secret), form |-> "lower"],
                     timestamp, body, secret)
    \/ \E timestamp \in ReplayTimestamps, body \in ReplayBodies :
          VerifyReplay(timestamp, body)
    \/ AuthTick

ReplaySpec == InitAuth /\ [][NextReplay]_vars

\* Calls of generate_room_name, as generate_token and the unit tests make them.
InitRoom == InitAuth /\ devices["d1"].is_active

NextRoom ==
    \E device_id \in RoomDeviceIds, child_id \in RoomChildIds :
       GenerateRoomName(device_id, child_id)

RoomSpec == InitRoom /\ [][NextRoom]_vars

----------------------------------------------------------------------------
(* Pairing properties *)

Paired(table, d, c) == table[d].exists /\ table[d].is_active /\ table[d].child_id = c

\* C1: after any sequence of completed DeviceService operations every device
\* has at most one paired child (a single child id or none) and every child
\* has at most one active device paired with it.
C1_OneActiveDevicePerChild ==
    /\ \A d \in DeviceIds :
          devices[d].exists => devices[d].child_id \in ChildIds \cup {NULL}
    /\ \A c \in ChildIds, a, b \in DeviceIds :
          (Paired(devices, a, c) /\ Paired(devices, b, c)) => a = b

\* Several operations have completed: d3 was registered for a child and has
\* lost it again, while d1 is paired through a redeemed code.
C1_Witness ==
    /\ AllIdle
    /\ devices["d3"].exists /\ devices["d3"].child_id = NULL
    /\ devices["d1"].child_id = "c1"
    /\ consumed # {}

\* C2: with two pairing operations of different devices for the same child in
\* flight together, neither the committed table nor any transaction's view of
\* it ever holds two active devices paired with that child.
C2_NoTwoActiveDevicesUnderRace ==
    \A c \in ChildIds, a, b \in DeviceIds :
        a # b =>
        /\ ~(Paired(devices, a, c) /\ Paired(devices, b, c))
        /\ \A p \in Procs : ~(Paired(View(p), a, c) /\ Paired(View(p), b, c))

\* Two pair calls of different devices raced for c1: one is committed, the
\* other was stopped by the unique index.
C2_Witness ==
    \E p \in Procs, a \in DeviceIds :
        /\ op[p].name = "pair" /\ result[p] = "IntegrityError"
        /\ a # dev[p].id /\ Paired(devices, a, got[p])

\* C3: of the pair calls that redeem the same code at most one obtains the
\* mapped child id.
C3_AtMostOneRedeemer ==
    \A k \in Codes :
        Cardinality({p \in Procs : op[p].name = "pair" /\ op[p].code = k /\ got[p] # NULL}) <= 1

\* C4: redeemed one after the other, the first redemption of a code returns
\* the mapped child id and deletes the code, every later one returns
\* INVALID_PAIRING_CODE.
C4_CodeConsumedOnce ==
    [][\A p \in Procs :
        /\ (pc[p] = "pair_verify" /\ pc'[p] \in {"pair_delete", "returned"}
              /\ dev[p].child_id = NULL /\ op[p].redis)
           => IF op[p].code \in consumed
              THEN got'[p] = NULL /\ result'[p] = "INVALID_PAIRING_CODE"
              ELSE /\ op[p].code \in DOMAIN codes
                   /\ got'[p] = codes[op[p].code]
                   /\ pc'[p] = "pair_delete"
        /\ (pc[p] = "pair_delete" /\ pc'[p] = "pair_get_child")
           => op[p].code \notin DOMAIN codes']_vars

\* A second redemption of a consumed code has been answered.
C4_Witness ==
    \E p \in Procs :
        /\ pc[p] = "returned" /\ op[p].name = "pair"
        /\ result[p] = "INVALID_PAIRING_CODE"
        /\ op[p].code \in consumed

NoDeleteResults == {"ALREADY_PAIRED", "SERVICE_UNAVAILABLE", "INVALID_PAIRING_CODE"}

\* C5 as stated: a pair call that returns ALREADY_PAIRED, SERVICE_UNAVAILABLE,
\* INVALID_PAIRING_CODE or CHILD_NOT_FOUND has removed no code.
C5_CodeRemovedOnlyBySuccess ==
    \A p \in Procs :
        (pc[p] = "returned" /\ op[p].name = "pair"
           /\ result[p] \in NoDeleteResults \cup {"CHILD_NOT_FOUND"})
        => deleted[p] = {} /\ (got[p] # NULL => op[p].code \in DOMAIN codes)

\* C5 amended: the code store changes only by a pair call deleting its own
\* code; a call that returns ALREADY_PAIRED, SERVICE_UNAVAILABLE or
\* INVALID_PAIRING_CODE has deleted nothing, and a call that returns
\* CHILD_NOT_FOUND or succeeds has deleted its code.
C5_CodeRemovedOnRedemption ==
    [][/\ codes' # codes
          => \E p \in Procs :
                /\ pc[p] = "pair_delete" /\ pc'[p] = "pair_get_child"
                /\ DOMAIN codes' = DOMAIN codes \ {op[p].code}
                /\ \A k \in DOMAIN codes' : codes'[k] = codes[k]
       /\ \A p \in Procs :
            (pc[p] # "returned" /\ pc'[p] = "returned" /\ op[p].name = "pair")
            => /\ result'[p] \in NoDeleteResults => deleted[p] = {}
               /\ result'[p] \in {"CHILD_NOT_FOUND", "OK"}
                    => /\ deleted[p] = {op[p].code}
                       /\ op[p].code \notin DOMAIN codes']_vars

\* A pair call has returned CHILD_NOT_FOUND after deleting its code.
C5_Witness ==
    \E p \in Procs :
        /\ pc[p] = "returned" /\ op[p].name = "pair"
        /\ result[p] = "CHILD_NOT_FOUND"
        /\ deleted[p] = {op[p].code}
        /\ op[p].code \notin DOMAIN codes

\* C6: pair on a device that is already paired returns ALREADY_PAIRED, unpair
\* and unpair_by_id on a device that is not paired return NOT_PAIRED, and such
\* a call has written no device row and deleted no code.
C6_GuardedTransitions ==
    \A p \in Procs :
        pc[p] = "returned" =>
        /\ (op[p].name = "pair" /\ devices[dev[p].id].child_id # NULL)
           => result[p] = "ALREADY_PAIRED"
        /\ (op[p].name = "unpair" /\ devices[dev[p].id].child_id = NULL)
           => result[p] = "NOT_PAIRED"
        /\ (op[p].name = "unpair_by_id" /\ devices[op[p].device].exists
              /\ devices[op[p].device].child_id = NULL)
           => result[p] = "NOT_PAIRED"
        /\ result[p] \in {"ALREADY_PAIRED", "NOT_PAIRED"}
           => /\ writes[p] = NoWrites
              /\ deleted[p] = {}
              /\ View(p) = devices

\* An unpair of an unpaired device has been answered NOT_PAIRED.
C6_Witness ==
    \E p \in Procs :
        /\ pc[p] = "returned" /\ op[p].name = "unpair"
        /\ result[p] = "NOT_PAIRED"

\* C7: when an unpaired device's pair call succeeds for a child that had a
\* different active device, the committed rows show the old device unpaired
\* (child_id and paired_at cleared) and the new device paired with the child
\* (child_id the child, paired_at set).
C7_EvictionOnPair ==
    [][\A p \in Procs :
        (pc[p] = "returned" /\ pc'[p] = "idle" /\ op[p].name = "pair" /\ result[p] = "OK")
        => /\ devices'[dev[p].id].child_id = got[p]
           /\ devices'[dev[p].id].paired_at # NoTime
           /\ \A old \in DeviceIds \ {dev[p].id} :
                 Paired(devices, old, got[p])
                 => /\ devices'[old].child_id = NULL
                    /\ devices'[old].paired_at = NoTime]_vars

\* A pair call has succeeded after evicting another device.
C7_Witness ==
    \E p \in Procs :
        /\ pc[p] = "returned" /\ op[p].name = "pair" /\ result[p] = "OK"
        /\ existing[p] \notin {NULL, dev[p].id}
        /\ Paired(devices, existing[p], got[p])

----------------------------------------------------------------------------
(* Token pipeline properties *)

\* The call's step leaves counters, last_seen and its own token and charge
\* as they were.
NoEffect(p) ==
    /\ rate_limit' = rate_limit /\ expiring' = expiring
    /\ last_seen' = last_seen
    /\ issued'[p] = issued[p] /\ charged'[p] = charged[p]

Stops(p, code) ==
    /\ tpc'[p] = "returned" /\ token_result'[p] = code
    /\ NoEffect(p)
    /\ ~issued[p] /\ charged[p] = 0

Proceeds(p, label) == tpc'[p] = label /\ NoEffect(p)

\* C8: generate_token checks pairing, child active, subscription found,
\* subscription effective-active, rate limit (when it has a counter store)
\* and then issues the token, in this order; at each step the earliest
\* failing condition decides the returned error code, whatever the later
\* conditions are, and the call that has returned does nothing more.
C8_PipelineOrder ==
    [][\A p \in Procs :
        LET d == call[p].device
            c == devices[d].child_id
            s == subscriptions[children[c].user_id]
            over == /\ s.plan_type # "premium"
                    /\ d \in DOMAIN rate_limit
                    /\ int(rate_limit[d]) >= RATE_LIMITS[s.plan_type]
        IN
        /\ (tpc[p] = "validate" /\ tpc'[p] # "validate")
           => IF c = NULL THEN Stops(p, "DEVICE_NOT_PAIRED")
              ELSE IF ~children[c].is_active THEN Stops(p, "CHILD_NOT_FOUND")
              ELSE Proceeds(p, "get_subscription")
        /\ (tpc[p] = "get_subscription" /\ tpc'[p] # "get_subscription")
           => IF ~s.exists THEN Stops(p, "SUBSCRIPTION_NOT_FOUND")
              ELSE IF s.status # "active" \/ (s.expires_at # NoTime /\ now > s.expires_at[1])
              THEN Stops(p, "SUBSCRIPTION_INACTIVE")
              ELSE IF call[p].redis THEN Proceeds(p, "check_rate_limit")
              ELSE Proceeds(p, "create_token")
        /\ (tpc[p] = "check_rate_limit" /\ tpc'[p] # "check_rate_limit")
           => IF over THEN Stops(p, "RATE_LIMIT_EXCEEDED")
              ELSE Proceeds(p, "create_token")
        /\ (tpc[p] = "create_token" /\ tpc'[p] = "returned")
           => Stops(p, "LIVEKIT_ERROR")
        /\ (tpc[p] = "create_token" /\ tpc'[p] = "update_last_seen")
           => issued'[p] /\ charged'[p] = 0 /\ rate_limit' = rate_limit
        /\ (tpc[p] \in {"update_last_seen", "incr", "ttl", "expire"} /\ tpc'[p] = "returned")
           => token_result'[p] = "OK"
        /\ (tpc[p] = "create_token" /\ tpc'[p] = "raised")
           => NoEffect(p) /\ ~issued[p] /\ charged[p] = 0
        /\ (tpc[p] \in {"returned", "raised"} /\ tpc'[p] # tpc[p])
           => tpc'[p] = "idle" /\ rate_limit' = rate_limit /\ last_seen' = last_seen]_vars

\* The subscription is inactive, the counter is at the limit and the signer
\* has no keys: the call has answered for the subscription.
C8_Witness ==
    \E p \in Procs :
        /\ tpc[p] = "returned" /\ token_result[p] = "SUBSCRIPTION_INACTIVE"
        /\ call[p].redis /\ ~livekit_keys
        /\ ~_check_rate_limit(rate_limit, call[p].device, subscription[p])

\* C9 as stated: a call that has returned a failure has made no increment and
\* a call that has returned success has made exactly one.
C9_ChargedOnlyOnSuccess ==
    \A p \in Procs :
        tpc[p] = "returned"
        => charged[p] = IF token_result[p] = "OK" THEN 1 ELSE 0

Val(store, d) == IF d \in DOMAIN store THEN int(store[d]) ELSE 0

\* C9 amended: a call that returns a failure has left the counter unchanged;
\* a call that returns success has increased its device's counter by exactly
\* 1 when the service has a counter store and has touched no counter when it
\* has none; and a counter changes only by such an increment or by the key's
\* expiry.
C9_ChargedOnlyOnSuccessWithStore ==
    [][/\ \A p \in Procs :
            (tpc[p] # "returned" /\ tpc'[p] = "returned")
            => /\ charged'[p] = IF token_result'[p] = "OK" /\ call[p].redis THEN 1 ELSE 0
               /\ token_result'[p] # "OK" => rate_limit' = rate_limit
       /\ \A d \in DeviceIds :
            Val(rate_limit', d) # Val(rate_limit, d)
            => \/ d \in DOMAIN expiring /\ d \notin DOMAIN rate_limit'
               \/ \E p \in Procs :
                     /\ tpc[p] = "incr" /\ tpc'[p] = "ttl"
                     /\ call[p].device = d /\ call[p].redis
                     /\ charged[p] = 0 /\ charged'[p] = 1
                     /\ Val(rate_limit', d) = Val(rate_limit, d) + 1
                     /\ \A e \in DeviceIds \ {d} : Val(rate_limit', e) = Val(rate_limit, e)]_vars

\* A call on a service without a counter store has succeeded and has made no
\* increment.
C9_Witness ==
    \E p \in Procs :
        /\ tpc[p] = "returned" /\ token_result[p] = "OK"
        /\ ~call[p].redis /\ charged[p] = 0

\* C10: the rate-limit check allows exactly when the plan is premium, or the
\* device has no counter, or the counter is strictly below the plan's limit
\* (free 50, basic 200); 49 of 50 is allowed and 50 of 50 is denied.
C10_RateLimitCheck ==
    [][/\ \A p \in Procs :
            (tpc[p] = "check_rate_limit" /\ tpc'[p] # "check_rate_limit")
            => LET d == call[p].device
                   plan == subscription[p].plan_type
                   allowed == \/ plan = "premium"
                              \/ d \notin DOMAIN rate_limit
                              \/ plan = "free" /\ int(rate_limit[d]) < 50
                              \/ plan = "basic" /\ int(rate_limit[d]) < 200
               IN IF allowed THEN tpc'[p] = "create_token"
                  ELSE tpc'[p] = "returned" /\ token_result'[p] = "RATE_LIMIT_EXCEEDED"
       /\ \A u \in UserIds :
            (subscriptions[u].exists /\ subscriptions[u].plan_type = "free")
            => /\ _check_rate_limit("d1" :> <<4, 9>>, "d1", subscriptions[u])
               /\ ~_check_rate_limit("d1" :> <<5, 0>>, "d1", subscriptions[u])]_vars

\* A request on a free plan with the counter at 50 has been denied.
C10_Witness ==
    \E p \in Procs :
        /\ tpc[p] = "returned" /\ token_result[p] = "RATE_LIMIT_EXCEEDED"
        /\ subscription[p].plan_type = "free"
        /\ call[p].device \in DOMAIN rate_limit
        /\ rate_limit[call[p].device] = <<5, 0>>

\* C11: the increment that finds the counter without expiry sets it to lapse
\* at the next UTC midnight; an increment that finds an expiry makes no
\* expire call, and the expiry of a living key is never changed.
C11_ExpirySetOnce ==
    [][/\ \A p \in Procs :
            LET d == call[p].device IN
            /\ (tpc[p] = "incr" /\ tpc'[p] = "ttl") => expiring' = expiring
            /\ (tpc[p] = "ttl" /\ tpc'[p] # "ttl")
               => IF d \in DOMAIN rate_limit /\ d \notin DOMAIN expiring
                  THEN tpc'[p] = "expire"
                  ELSE tpc'[p] = "returned" /\ expiring' = expiring
            /\ (tpc[p] = "expire" /\ tpc'[p] # "expire" /\ d \in DOMAIN rate_limit)
               => /\ d \in DOMAIN expiring'
                  /\ expiring'[d] > now
                  /\ expiring'[d] - now <= DayLen
                  /\ expiring'[d] % DayLen = 0
       /\ \A d \in DOMAIN expiring \cap DOMAIN expiring' : expiring'[d] = expiring[d]]_vars

\* A first increment has completed and the new counter has its expiry.
C11_Witness ==
    \E p \in Procs :
        /\ tpc[p] = "returned" /\ token_result[p] = "OK" /\ charged[p] = 1
        /\ call[p].device \in DOMAIN rate_limit
        /\ rate_limit[call[p].device] = <<1>>
        /\ call[p].device \in DOMAIN expiring

\* C12: the daily counter resets by the passage of time alone, also after a
\* request was stopped between the increment and the setting of the expiry.
\* A key lapses only if it carries an expiry, and a denied request changes
\* nothing in Redis; so once no request is in flight, the counter that has
\* denied a device must carry an expiry for as long as it is there.
C12_DeniedCounterExpires ==
    \A p \in Procs :
        (/\ tpc[p] = "returned"
         /\ token_result[p] = "RATE_LIMIT_EXCEEDED"
         /\ \A q \in Procs \ {p} : tpc[q] = "idle"
         /\ call[p].device \in DOMAIN rate_limit)
        => call[p].device \in DOMAIN expiring

\* C13: with n requests of one device in flight at once, the tokens minted
\* for it in one UTC day exceed the plan's daily limit by at most n - 1.
C13_OvershootBounded ==
    \A d \in DeviceIds :
        (devices[d].exists /\ devices[d].child_id # NULL)
        => LET s == subscriptions[children[devices[d].child_id].user_id] IN
           minted[d] <= _get_daily_limit(s) + (Cardinality(Procs) - 1)

\* Two requests passed the check together and the second of them has been
\* served: the device holds one token more than its daily limit.
C13_Witness ==
    /\ minted["d1"] = _get_daily_limit(subscriptions["u1"]) + 1
    /\ \E p \in Procs :
          tpc[p] = "returned" /\ token_result[p] = "OK" /\ call[p].device = "d1"

----------------------------------------------------------------------------
(* Signature verifier properties *)

\* The timestamp of the recorded call is an integer within the window of the
\* clock reading t.
FreshAt(t) ==
    /\ py_int_ok(verified.timestamp)
    /\ abs(t - py_int(verified.timestamp)) <= Window

\* The supplied signature is the lowercase-hex digest made with the secret
\* passed, for the serial passed, over the body passed.
SignedAsPassed ==
    /\ verified.sig.form = "lower"
    /\ verified.sig.signer = Signer(verified.serial, verified.body, verified.secret)

\* C14: for a timestamp that is an integer within 300 seconds of the clock,
\* the lowercase-hex HMAC-SHA256 of serial + timestamp + UTF-8 body keyed by
\* the secret is accepted, the empty body included.
C14_ValidSignatureAccepted ==
    (verified.called /\ FreshAt(verified.at) /\ verified.body.valid /\ SignedAsPassed)
    => verified.result = "True"

\* A correctly signed request with an empty body has been accepted.
C14_Witness ==
    /\ verified.called
    /\ FreshAt(verified.at)
    /\ SignedAsPassed
    /\ verified.body = EmptyBody
    /\ verified.result = "True"

\* C15: a timestamp more than 300 seconds behind or ahead of the clock is
\* rejected even with a correct signature, and a correctly signed request
\* whose timestamp is exactly 300 seconds off, either way, is accepted.
C15_WindowSymmetricInclusive ==
    (verified.called /\ py_int_ok(verified.timestamp))
    => LET request_time == py_int(verified.timestamp) IN
       /\ (verified.at - request_time > Window \/ request_time - verified.at > Window)
          => verified.result = "False"
       /\ (/\ verified.at - request_time = Window \/ request_time - verified.at = Window
           /\ verified.body.valid
           /\ SignedAsPassed)
          => verified.result = "True"

\* A correctly signed request stamped exactly 300 seconds behind the clock
\* has been accepted and, made again a second later, rejected.
C15_Witness ==
    /\ verified.called /\ again.called
    /\ SignedAsPassed
    /\ py_int_ok(verified.timestamp)
    /\ verified.at - py_int(verified.timestamp) = Window
    /\ verified.result = "True"
    /\ again.at = verified.at + 1
    /\ again.result = "False"

\* C16: with a fresh timestamp (and a body that decodes), a signature
\* computed with a different secret, for a different serial or over
\* a different body than the ones passed is rejected, and so is every other
\* ASCII string that is not the expected digest.
C16_BoundToSerialBodySecret ==
    (verified.called /\ FreshAt(verified.at) /\ verified.body.valid
        /\ verified.sig.form # "nonascii")
    => /\ (/\ verified.sig.form = "lower"
           /\ \/ verified.sig.signer.secret # verified.secret
              \/ verified.sig.signer.serial # verified.serial
              \/ verified.sig.signer.body # verified.body)
          => verified.result = "False"
       /\ verified.signature # generate_signature(verified.serial, verified.timestamp,
                                                  verified.body, verified.secret)
          => verified.result = "False"

\* C17: a timestamp string that does not parse as an integer is rejected,
\* whatever the signature, body and secret.
C17_UnparseableTimestampRejected ==
    (verified.called /\ ~py_int_ok(verified.timestamp))
    => verified.result = "False"

\* A request whose timestamp does not parse, signed correctly over that very
\* string, has been rejected.
C17_Witness ==
    /\ verified.called
    /\ ~py_int_ok(verified.timestamp)
    /\ SignedAsPassed
    /\ verified.body.valid
    /\ verified.result = "False"

\* C18 as claimed: two calls with identical arguments yield identical results.
C18_SameInputsSameResult ==
    again.called => again.result = verified.result

\* The state a call of the verifier could have written to: devices,
\* counters, pairings and codes.
Stores == <<devices, children, codes, consumed, subscriptions, rate_limit,
            expiring, last_seen>>

\* C18, amended: no call changes any device, counter or pairing state, and
\* two calls with identical arguments yield identical results whenever the
\* timestamp lies on the same side of the freshness window at both clock
\* readings.
C18_SameInputsSameFreshnessSameResult ==
    [][(verified' # verified \/ again' # again)
       => /\ UNCHANGED Stores
          /\ (again'.called /\ (FreshAt(verified.at) <=> FreshAt(again'.at)))
             => again'.result = verified.result]_vars

\* A request accepted while its timestamp was fresh has been rejected, with
\* the same arguments, once the clock had moved past the window; the same
\* call repeated inside the window gave the same answer.
C18_Witness ==
    /\ verified.called /\ again.called
    /\ verified.result = "True"
    /\ again.result = "False"
    /\ again.at > verified.at

----------------------------------------------------------------------------
(* verify_device properties *)

\* The request carried all three headers.
Complete(p) == request[p].sent /\ request[p].missing = {}

\* The serial of the request is not registered.
UnknownSerial(p) == Complete(p) /\ get_device_secret(request[p].serial) = <<>>

\* The serial is registered, and the signature is not the device's or the
\* timestamp was stale when the request was handled.
KnownSerialBadProof(p) ==
    /\ Complete(p)
    /\ get_device_secret(request[p].serial) # <<>>
    /\ \/ request[p].sig.form = "junk"
       \/ /\ py_int_ok(request[p].timestamp)
          /\ abs(request[p].at - py_int(request[p].timestamp)) > Window

C20_NoLookupOnProtocolError ==
    \A p \in Procs :
        (/\ request[p].sent
         /\ \/ request[p].missing # {}
            \/ ~py_int_ok(request[p].timestamp))
        => lookups[p] = 0

\* The devices registered under the serial of the request.
Registered(p) ==
    {d \in DeviceIds : devices[d].exists /\ devices[d].serial_number = request[p].serial}

\* The request is signed by the registered device over a timestamp that was
\* fresh when the request was handled.
ValidProof(p) ==
    /\ Complete(p)
    /\ \E d \in Registered(p) :
          request[p].sig = [signer |-> Signer(request[p].serial, EmptyBody,
                                             devices[d].device_secret),
                           form |-> "lower"]
    /\ py_int_ok(request[p].timestamp)
    /\ abs(request[p].at - py_int(request[p].timestamp)) <= Window

----------------------------------------------------------------------------
(* Endpoint properties *)

\* C22: a device-authenticated request that completes successfully, a token
\* request or a health check, leaves the device online and its last_seen
\* refreshed.
C22_SuccessMarksSeen ==
    \A p \in Procs :
        (tpc[p] = "returned" /\ token_result[p] \in {"OK", "healthy"})
        => /\ connection_status[call[p].device] = "online"
           /\ last_seen[call[p].device] \notin {NoTime, SeenStart}

\* C23: generate_token never raises: whatever the stores and the signer do,
\* it returns a TokenResult that is a success or carries one of the
\* pipeline's error codes.
C23_NoRawError ==
    \A p \in Procs :
        /\ tpc[p] # "raised"
        /\ tpc[p] = "returned"
           => token_result[p] \in {"OK", "DEVICE_NOT_PAIRED", "CHILD_NOT_FOUND",
                                   "SUBSCRIPTION_NOT_FOUND", "SUBSCRIPTION_INACTIVE",
                                   "RATE_LIMIT_EXCEEDED", "LIVEKIT_ERROR"}

(* Registration properties *)


\* The call of p is a registration of a serial number some committed device holds.
DuplicateSerial(p) ==
    /\ pc[p] \in {"returned", "raised"}
    /\ op[p].name \in {"register", "register_and_pair"}
    /\ \E d \in DeviceIds : devices[d].exists /\ devices[d].serial_number = op[p].serial

\* register_and_pair called with the secret of the device that holds the serial.
RePair(p) ==
    /\ op[p].name = "register_and_pair"
    /\ \E d \in DeviceIds : /\ devices[d].exists
                            /\ devices[d].serial_number = op[p].serial
                            /\ devices[d].device_secret = op[p].secret

Rows(table) == {d \in DeviceIds : table[d].exists}

FullyValid(p) ==
    /\ ValidProof(p)
    /\ livekit_keys
    /\ \E d \in Registered(p) :
          /\ devices[d].is_active
          /\ devices[d].child_id # NULL
          /\ children[devices[d].child_id].is_active
          /\ LET s == subscriptions[children[devices[d].child_id].user_id] IN
             /\ s.exists
             /\ _is_subscription_active(s)
             /\ _check_rate_limit(rate_limit, d, s)

\* C25: a fully valid token request is answered with HTTP 200.
C25_ValidRequestAnswered200 ==
    \A p \in Procs : FullyValid(p) => response[p].status = 200

\* The subscription row that step 3 of p's request reads.
OwnerSubscription(p) ==
    subscriptions[children[devices[call[p].device].child_id].user_id]

\* C26: the subscription check lets a request through exactly when the row's
\* status is 'active' and it has no expiry or the expiry is not yet behind the
\* clock; every other existing row ends the request with SUBSCRIPTION_INACTIVE.
C26_ActiveAndUnexpiredPasses ==
    [][\A p \in Procs :
          (/\ tpc[p] = "get_subscription"
           /\ tpc'[p] # "get_subscription"
           /\ OwnerSubscription(p).exists) =>
             IF /\ OwnerSubscription(p).status = "active"
                /\ ~(/\ OwnerSubscription(p).expires_at # NoTime
                     /\ now > OwnerSubscription(p).expires_at[1])
             THEN tpc'[p] \in {"check_rate_limit", "create_token"}
             ELSE tpc'[p] = "returned" /\ token_result'[p] = "SUBSCRIPTION_INACTIVE"]_vars

C26_Witness ==
    \E p, q \in Procs :
       /\ tpc[p] = "returned" /\ token_result[p] = "SUBSCRIPTION_INACTIVE"
       /\ subscription[p].status = "active"
       /\ tpc[q] \in {"check_rate_limit", "create_token"}
       /\ subscription[q] = subscription[p]

(* Room names *)

\* C27: any two calls of generate_room_name return different names, calls
\* with the same device and child ids included.
C27_RoomNamesDiffer ==
    \A i, j \in DOMAIN rooms : i # j => rooms[i] # rooms[j]

(* Sequential limit *)

\* C28: with the requests of a device processed one at a time, the tokens
\* issued to it since its counter last lapsed never exceed the daily limit of
\* the plan (50 free, 200 basic).
C28_SequentialLimitExact ==
    \A d \in DeviceIds :
        (devices[d].exists /\ devices[d].child_id # NULL)
        => granted[d] <= RATE_LIMITS[subscriptions[children[devices[d].child_id].user_id].plan_type]

\* The last token the plan allows has been issued (the device has been marked
\* seen), and a later request has been refused.
C28_Witness ==
    /\ granted["d1"] = RATE_LIMITS[subscriptions["u1"].plan_type]
    /\ last_seen["d1"] # NoTime
    /\ \E p \in Procs :
          /\ tpc[p] = "returned" /\ call[p].device = "d1"
          /\ token_result[p] = "RATE_LIMIT_EXCEEDED"

(* Signature reuse *)

\* C29: for a fixed serial and secret, a signature accepted with one
\* (timestamp string, body) pair is rejected with every different pair.
C29_AcceptedForOnePairOnly ==
    (/\ verified.called /\ verified.result = "True"
     /\ replayed.called
     /\ <<replayed.timestamp, replayed.body>> # <<verified.timestamp, verified.body>>)
    => replayed.result = "False"

\* C30: verify_device_signature returns True or False for every input; it
\* raises for none.
C30_AlwaysBoolean ==
    verified.called => verified.result \in {"True", "False"}

====
